---- MODULE Spec2Model ----
(***************************************************************************)
(* Model of the job scheduler of the arbitrage monitor                     *)
(* (src/scheduler-service.ts): the scheduler_jobs and scheduler_job_runs   *)
(* tables, the bootstrap, getDueJobs, runJob and processAllDueJobs.        *)
(*                                                                         *)
(* Every `await` of the TypeScript code is one atomic step of the model:   *)
(* between two steps of an invocation the clock may advance and, in the    *)
(* specifications that allow it, another invocation may take a step.       *)
(* Time is counted in whole hours (the unit of interval_hours).            *)
(***************************************************************************)
EXTENDS Integers, Sequences, FiniteSets, TLC

\* ------------------------------------------------------------------ bounds
\* number of clock advances in one behaviour
MaxTicks == 2
\* number of rows of scheduler_job_runs in one behaviour
MaxRuns == 2
\* number of rows of scheduler_jobs (the two default jobs and inserted ones)
MaxJobs == 3

\* number of rows an operator edits by hand in one behaviour
MaxEdits == 1

\* ------------------------------------------------------- program constants
\* interval_hours of the default monitoring_cycle job
MonitoringIntervalHours == 24
\* interval_hours of the default data_cleanup job
CleanupIntervalHours == 168
\* datetime('now', '+1 day') and datetime('now', '+7 day'), in hours
OneDayHours == 24
SevenDaysHours == 168
\* SQL NULL of a DATETIME column
NULL == -1
\* SQL NULL of a TEXT column
NoText == "<NULL>"
\* the number of rows of a table that was never created
NoTable == NULL

\* sqlite_sequence of the two tables that lose rows: AUTOINCREMENT gives a
\* new row the id after the highest one ever given (0001_initial.sql line
\* 43, crawler-config.ts line 280); no row was deleted so far
SequenceOf(prices, alerts) ==
  [price_history |-> Len(prices), alert_history |-> Len(alerts)]

\* the clock advances by a day or by a week at a time
TickSteps == {OneDayHours, SevenDaysHours}

\* overlapping invocations of the entry points (two HTTP requests)
Invocations == {"a", "b"}

\* job types with a bound task, and one without
BoundJobTypes == {"monitoring_cycle", "data_cleanup"}
UnboundJobType == "price_report"

\* how a rejected statement of the awaited task shows: an Error that has a
\* message, or an Error whose message is empty
TaskRejections == {"throws", "throwsEmpty"}

VARIABLES
  now,          \* the store's clock, in hours
  ticks,        \* how often the clock has advanced (bounded by MaxTicks)
  edits,        \* how many rows were edited by hand (bounded by MaxEdits)
  tableExists,  \* scheduler_jobs exists
  runsTableExists,  \* scheduler_job_runs exists
  jobs,         \* scheduler_jobs: sequence of rows, id = index
  runs,         \* scheduler_job_runs: sequence of rows, id = index
  pc,           \* pc[w]: the await an invocation is at
  call,         \* call[w]: locals of processAllDueJobs
  frame,        \* frame[w]: locals of runJob
  ret,          \* ret[w]: what the entry point last returned or raised
  products,       \* products: sequence of rows, id = index
  websites,       \* websites (the listings): sequence of rows, id = index
  price_history,  \* price_history: sequence of rows, in order of insertion
  product_alerts, \* product_alerts: sequence of rows, in order of insertion
  productAlertsTable, \* the table product_alerts exists
  alert_history,  \* alert_history: sequence of rows, in order of insertion
  outbox,         \* the messages the mail transport accepted
  suppressed,     \* the alert requests answered 'recently sent'
  attempts,       \* the requests made to the mail transport, accepted or not
  route,          \* the stage the cron route is at, and the stages it went through
  spApiCredentials, \* the number of rows of sp_api_credentials, or NoTable
  spClient,       \* the pricing client of the service instance: "none", "credentials" or "client"
  appSettings,    \* app_settings: "noTable", "noKey" or "key"
  apiKey,         \* the mail service instance holds the API key
  alertHistoryTable, \* the table alert_history exists
  runResult,      \* what run() answers with: the count of rows under meta ("meta") or as changes ("legacy")
  last_insert_rowid, \* what SELECT last_insert_rowid() answers: the id of the row the store inserted last, 0 before any
  sqlite_sequence, \* the highest id given so far in price_history and in alert_history
  oracleCalls,    \* how many requests the pricing oracle has received
  calls,          \* how many entry points of the services were called
  mpc,            \* the await the service invocation is at
  batch,          \* locals of the batch operation that is running
  loc,            \* locals of the single-item operation that is running
  out             \* what the service entry point last returned or raised

\* the state of the services behind the scheduler: the store of products
\* and listings, the mail transport, the pricing oracle
storeVars == <<products, websites, price_history, product_alerts,
               productAlertsTable, alert_history, outbox, suppressed,
               attempts, route, spApiCredentials, spClient, appSettings, apiKey, alertHistoryTable, runResult, oracleCalls, calls, mpc, batch, loc, out>>

vars == <<now, last_insert_rowid, sqlite_sequence, ticks, edits, tableExists, runsTableExists, jobs, runs, pc, call, frame, ret,
          storeVars>>

\* ------------------------------------------------------------------ rows
JobRow(type, interval, next) ==
  [job_type |-> type, status |-> "active", interval_hours |-> interval,
   last_run_time |-> NULL, next_run_time |-> next]

\* the result column of a run whose task has not resolved
NoResult == [kind |-> "null"]

\* via is not a column: it records which entry point opened the run
RunRow(jobId, t, via) ==
  [job_id |-> jobId, status |-> "running", start_time |-> t,
   end_time |-> NULL, result |-> NoResult, error |-> NoText, via |-> via]

NoCall ==
  [dueJobs |-> <<>>, idx |-> 0, succeeded |-> 0, failed |-> 0,
   results |-> <<>>, calledAt |-> NULL, snapshot |-> <<>>, firstRun |-> 0]

\* via is "batch" when runJob was called by processAllDueJobs and "direct"
\* when it was called as an entry point
\* the locals of the awaited task: the rows getWebsitesToMonitor returned,
\* the position of the loop, what recordPriceUpdate found for the row at
\* that position, and the counters
NoTask ==
  [rows |-> <<>>, idx |-> 0, priceChanged |-> FALSE, stockChanged |-> FALSE,
   priceChanges |-> 0, stockChanges |-> 0, opportunities |-> 0,
   priceHistoryDeleted |-> 0]

NoFrame ==
  [jobId |-> 0, interval_hours |-> 0, job_type |-> NoText, runId |-> 0,
   error |-> NoText, via |-> "none", task |-> NoTask, result |-> NoResult]

NewFrame(jobId, via) == [NoFrame EXCEPT !.jobId = jobId, !.via = via]

NoRet ==
  [kind |-> "none", processed |-> 0, succeeded |-> 0, failed |-> 0,
   results |-> <<>>, success |-> FALSE, error |-> NoText]

Raised(msg) == [NoRet EXCEPT !.kind = "raised", !.error = msg]

\* the message is stored as thrown
ErrorMessageAsThrown(msg) == msg

\* e.message || 'Unknown error'
ErrorMessage(msg) == IF msg = "" THEN "Unknown error" ELSE msg

\* no service is running and nothing was returned
NoBatch == [op |-> "none"]
NoLoc == [op |-> "none"]
NoOut == [kind |-> "none"]
\* the cron route is not running
NoRoute == [stage |-> "none", log |-> <<>>]
\* the invocation of a service whose position is mpc
Service == "service"
\* the alert calls that can be at work at the same time: the one of mpc and
\* a second one, whose position is pc["b"]
AlertInvocations == {Service, "b"}
\* every call is made on an EmailService of its own, which has not read
\* the API key of the transport
NoApiKey == [w \in AlertInvocations |-> FALSE]

\* the scheduler is looked at on its own: the other tables are empty
NoStore ==
  /\ products = <<>>
  /\ websites = <<>>
  /\ price_history = <<>>
  /\ product_alerts = <<>>
  /\ productAlertsTable = FALSE
  /\ alert_history = <<>>
  /\ outbox = <<>>
  /\ suppressed = <<>>
  /\ attempts = <<>>
  /\ route = NoRoute
  /\ spApiCredentials = 1
  /\ spClient = "none"
  /\ appSettings = "key"
  /\ apiKey = NoApiKey
  /\ alertHistoryTable = FALSE
  /\ runResult = "meta"
  /\ last_insert_rowid = 0
  /\ sqlite_sequence = SequenceOf(price_history, alert_history)
  /\ oracleCalls = 0
  /\ calls = 0
  /\ mpc = "idle"
  /\ batch = NoBatch
  /\ loc = NoLoc
  /\ out = NoOut

Init ==
  /\ NoStore
  /\ now = 0
  /\ ticks = 0
  /\ edits = 0
  /\ tableExists = FALSE
  /\ runsTableExists = FALSE
  /\ jobs = <<>>
  /\ runs = <<>>
  /\ pc = [w \in Invocations |-> "idle"]
  /\ call = [w \in Invocations |-> NoCall]
  /\ frame = [w \in Invocations |-> NoFrame]
  /\ ret = [w \in Invocations |-> NoRet]

\* ----------------------------------------------------------------- clock
Tick ==
  /\ ticks < MaxTicks
  /\ \E d \in TickSteps : now' = now + d
  /\ ticks' = ticks + 1
  /\ UNCHANGED <<storeVars, last_insert_rowid, sqlite_sequence, edits,
                 tableExists, runsTableExists, jobs, runs, pc, call, frame,
                 ret>>

\* ------------------------------------------------------------- bootstrap
\* initializeSchedulerTables: the SELECT on sqlite_master
InitCheck(w) ==
  /\ pc[w] = "idle"
  /\ IF tableExists
       THEN /\ pc' = pc
            /\ ret' = [ret EXCEPT ![w] = [NoRet EXCEPT !.kind = "initialized"]]
       ELSE /\ pc' = [pc EXCEPT ![w] = "createTables"]
            /\ ret' = [ret EXCEPT ![w] = NoRet]
  /\ UNCHANGED <<storeVars, now, last_insert_rowid, sqlite_sequence, ticks, edits, tableExists, runsTableExists, jobs, runs, call, frame>>

\* lines 28-44: the db.exec that creates scheduler_jobs; CREATE TABLE of a
\* table that exists is an SQL error, which is rethrown
CreateJobsTable(w) ==
  /\ pc[w] = "createTables"
  /\ IF tableExists
       THEN /\ pc' = [pc EXCEPT ![w] = "idle"]
            /\ ret' = [ret EXCEPT ![w] = Raised("table scheduler_jobs already exists")]
            /\ UNCHANGED tableExists
       ELSE /\ tableExists' = TRUE
            /\ pc' = [pc EXCEPT ![w] = "createRunsTable"]
            /\ UNCHANGED ret
  /\ UNCHANGED <<storeVars, now, last_insert_rowid, sqlite_sequence, ticks, edits, runsTableExists, jobs, runs,
                 call, frame>>

\* lines 47-60: the db.exec that creates scheduler_job_runs
CreateRunsTable(w) ==
  /\ pc[w] = "createRunsTable"
  /\ IF runsTableExists
       THEN /\ pc' = [pc EXCEPT ![w] = "idle"]
            /\ ret' = [ret EXCEPT ![w] =
                        Raised("table scheduler_job_runs already exists")]
            /\ UNCHANGED runsTableExists
       ELSE /\ runsTableExists' = TRUE
            /\ pc' = [pc EXCEPT ![w] = "insertMonitoring"]
            /\ UNCHANGED ret
  /\ UNCHANGED <<storeVars, now, last_insert_rowid, sqlite_sequence, ticks, edits, tableExists, jobs, runs, call,
                 frame>>

\* createDefaultJobs: the first INSERT
InsertMonitoringJob(w) ==
  /\ pc[w] = "insertMonitoring"
  /\ jobs' = Append(jobs, JobRow("monitoring_cycle", MonitoringIntervalHours,
                                 now + OneDayHours))
  /\ pc' = [pc EXCEPT ![w] = "insertCleanup"]
  /\ last_insert_rowid' = Len(jobs) + 1
  /\ UNCHANGED <<storeVars, now, sqlite_sequence, ticks, edits, tableExists, runsTableExists, runs, call, frame, ret>>

\* the second INSERT is a copy of the first with the job type changed
InsertCleanupJobDaily(w) ==
  /\ pc[w] = "insertCleanup"
  /\ jobs' = Append(jobs, JobRow("data_cleanup", MonitoringIntervalHours,
                                 now + OneDayHours))
  /\ pc' = [pc EXCEPT ![w] = "idle"]
  /\ ret' = [ret EXCEPT ![w] = [NoRet EXCEPT !.kind = "initialized"]]
  /\ last_insert_rowid' = Len(jobs) + 1
  /\ UNCHANGED <<storeVars, now, sqlite_sequence, ticks, edits, tableExists, runsTableExists, runs, call, frame>>

\* createDefaultJobs: the second INSERT, and the return of the bootstrap
InsertCleanupJob(w) ==
  /\ pc[w] = "insertCleanup"
  /\ jobs' = Append(jobs, JobRow("data_cleanup", CleanupIntervalHours,
                                 now + SevenDaysHours))
  /\ pc' = [pc EXCEPT ![w] = "idle"]
  /\ ret' = [ret EXCEPT ![w] = [NoRet EXCEPT !.kind = "initialized"]]
  /\ last_insert_rowid' = Len(jobs) + 1
  /\ UNCHANGED <<storeVars, now, sqlite_sequence, ticks, edits, tableExists, runsTableExists, runs, call, frame>>

\* ------------------------------------------------------------ getDueJobs
\* the status of the job is not looked at
IsDueWhateverStatus(job, t) ==
  /\ job.next_run_time # NULL
  /\ job.next_run_time <= t

\* WHERE status = 'active' AND datetime(next_run_time) <= datetime('now');
\* a comparison with NULL selects nothing
IsDue(job, t) ==
  /\ job.status = "active"
  /\ job.next_run_time # NULL
  /\ job.next_run_time <= t

DueIds(js, t) == {j \in DOMAIN js : IsDue(js[j], t)}

\* ORDER BY next_run_time ASC: every order of the selected ids that is
\* ascending in next_run_time (SQL leaves the order of ties open)
GetDueJobs(js, t) ==
  LET ids == DueIds(js, t)
      n == Cardinality(ids)
  IN {s \in [1..n -> ids] :
        /\ \A i, k \in 1..n : i # k => s[i] # s[k]
        /\ \A i, k \in 1..n :
             i < k => js[s[i]].next_run_time <= js[s[k]].next_run_time}

\* ---------------------------------------------------- processAllDueJobs
\* the return statement of processAllDueJobs
Counts(c) ==
  [NoRet EXCEPT !.kind = "counts", !.processed = Len(c.dueJobs),
                !.succeeded = c.succeeded, !.failed = c.failed,
                !.results = c.results]

\* processAllDueJobs up to its first await inside runJob: getDueJobs, and
\* the return when nothing is due. calledAt, snapshot and firstRun are not
\* locals of the code: they keep the clock, the table of jobs and the next
\* run id at the time of the call.
\* getDueJobs on a store without the table is an SQL error, rethrown.
StartProcessAllDueJobs(w) ==
  /\ pc[w] = "idle"
  /\ IF ~tableExists
       THEN /\ ret' = [ret EXCEPT ![w] = Raised("no such table: scheduler_jobs")]
            /\ UNCHANGED <<pc, call, frame>>
       ELSE \E due \in GetDueJobs(jobs, now) :
              /\ Len(runs) + Len(due) <= MaxRuns
              /\ IF Len(due) = 0
                   THEN /\ ret' = [ret EXCEPT ![w] = Counts(NoCall)]
                        /\ UNCHANGED <<pc, call, frame>>
                   ELSE /\ ret' = [ret EXCEPT ![w] = NoRet]
                        /\ pc' = [pc EXCEPT ![w] = "select"]
                        /\ call' = [call EXCEPT ![w] =
                                      [NoCall EXCEPT !.dueJobs = due, !.idx = 1,
                                                     !.calledAt = now,
                                                     !.snapshot = jobs,
                                                     !.firstRun = Len(runs) + 1]]
                        /\ frame' = [frame EXCEPT ![w] = NewFrame(due[1], "batch")]
  /\ UNCHANGED <<storeVars, now, last_insert_rowid, sqlite_sequence, ticks, edits, tableExists, runsTableExists, jobs, runs>>

\* runJob called as an entry point, with any job id
StartRunJob(w, jobId) ==
  /\ pc[w] = "idle"
  /\ Len(runs) < MaxRuns
  /\ pc' = [pc EXCEPT ![w] = "select"]
  /\ frame' = [frame EXCEPT ![w] = NewFrame(jobId, "direct")]
  /\ ret' = [ret EXCEPT ![w] = NoRet]
  /\ UNCHANGED <<storeVars, now, last_insert_rowid, sqlite_sequence, ticks, edits, tableExists, runsTableExists, jobs, runs, call>>

\* a runJob call that throws ends processAllDueJobs
AfterRunJobRethrown(w, success, raised, msg) ==
  IF raised
    THEN /\ pc' = [pc EXCEPT ![w] = "idle"]
         /\ ret' = [ret EXCEPT ![w] = Raised(msg)]
         /\ call' = [call EXCEPT ![w] = NoCall]
         /\ frame' = [frame EXCEPT ![w] = NoFrame]
    ELSE LET c == call[w]
             d == [c EXCEPT
                     !.results = Append(@, [jobId |-> frame[w].jobId,
                                            success |-> success,
                                            raised |-> raised,
                                            error |-> IF success THEN NoText ELSE msg]),
                     !.succeeded = IF success THEN @ + 1 ELSE @,
                     !.failed = IF success THEN @ ELSE @ + 1,
                     !.idx = @ + 1]
         IN IF d.idx > Len(d.dueJobs)
              THEN /\ pc' = [pc EXCEPT ![w] = "idle"]
                   /\ ret' = [ret EXCEPT ![w] = Counts(d)]
                   /\ call' = [call EXCEPT ![w] = NoCall]
                   /\ frame' = [frame EXCEPT ![w] = NoFrame]
              ELSE /\ pc' = [pc EXCEPT ![w] = "select"]
                   /\ call' = [call EXCEPT ![w] = d]
                   /\ frame' = [frame EXCEPT ![w] = NewFrame(d.dueJobs[d.idx], "batch")]
                   /\ UNCHANGED ret

\* What follows the end of a runJob call, up to the next await. success is
\* the success field of what runJob returned, raised tells that it threw
\* instead; msg is the error message of either. A direct call ends the
\* invocation. In processAllDueJobs the result is pushed (lines 244-265),
\* the counters are advanced, and the loop either calls runJob for the
\* next due job or returns the counts.
AfterRunJob(w, success, raised, msg) ==
  IF frame[w].via = "direct"
    THEN /\ pc' = [pc EXCEPT ![w] = "idle"]
         /\ ret' = [ret EXCEPT ![w] =
                     IF raised THEN Raised(msg)
                     ELSE [NoRet EXCEPT !.kind = "runJob", !.success = success,
                                        !.error = IF success THEN NoText ELSE msg]]
         /\ frame' = [frame EXCEPT ![w] = NoFrame]
         /\ UNCHANGED call
    ELSE LET c == call[w]
             d == [c EXCEPT
                     !.results = Append(@, [jobId |-> frame[w].jobId,
                                            success |-> success,
                                            raised |-> raised,
                                            error |-> IF success THEN NoText ELSE msg]),
                     !.succeeded = IF success THEN @ + 1 ELSE @,
                     !.failed = IF success THEN @ ELSE @ + 1,
                     !.idx = @ + 1]
         IN IF d.idx > Len(d.dueJobs)
              THEN /\ pc' = [pc EXCEPT ![w] = "idle"]
                   /\ ret' = [ret EXCEPT ![w] = Counts(d)]
                   /\ call' = [call EXCEPT ![w] = NoCall]
                   /\ frame' = [frame EXCEPT ![w] = NoFrame]
              ELSE /\ pc' = [pc EXCEPT ![w] = "select"]
                   /\ call' = [call EXCEPT ![w] = d]
                   /\ frame' = [frame EXCEPT ![w] = NewFrame(d.dueJobs[d.idx], "batch")]
                   /\ UNCHANGED ret

\* the run is opened before the job is looked up
SelectJobAfterRunOpened(w) ==
  /\ pc[w] = "select"
  /\ IF tableExists /\ frame[w].jobId \in DOMAIN jobs
       THEN /\ pc' = [pc EXCEPT ![w] = "insert"]
            /\ frame' = [frame EXCEPT
                           ![w].interval_hours = jobs[frame[w].jobId].interval_hours,
                           ![w].job_type = jobs[frame[w].jobId].job_type]
            /\ UNCHANGED <<call, ret, runs, last_insert_rowid>>
       ELSE /\ runs' = Append(runs, RunRow(frame[w].jobId, now, frame[w].via))
            /\ last_insert_rowid' = Len(runs) + 1
            /\ AfterRunJob(w, FALSE, TRUE,
                           IF tableExists THEN "Job not found"
                           ELSE "no such table: scheduler_jobs")
  /\ UNCHANGED <<storeVars, now, sqlite_sequence, ticks, edits, tableExists, runsTableExists, jobs>>

\* ----------------------------------------------------------------- runJob
\* lines 130-137: SELECT * FROM scheduler_jobs WHERE id = ?; on a store
\* without the table the statement is rejected, and a missing job makes
\* runJob throw; either error is rethrown by line 221
SelectJob(w) ==
  /\ pc[w] = "select"
  /\ IF tableExists /\ frame[w].jobId \in DOMAIN jobs
       THEN /\ pc' = [pc EXCEPT ![w] = "insert"]
            /\ frame' = [frame EXCEPT
                           ![w].interval_hours = jobs[frame[w].jobId].interval_hours,
                           ![w].job_type = jobs[frame[w].jobId].job_type]
            /\ UNCHANGED <<call, ret>>
       ELSE AfterRunJob(w, FALSE, TRUE,
                        IF tableExists THEN "Job not found"
                        ELSE "no such table: scheduler_jobs")
  /\ UNCHANGED <<storeVars, now, last_insert_rowid, sqlite_sequence, ticks, edits, tableExists, runsTableExists, jobs, runs>>

\* INSERT INTO scheduler_job_runs ... 'running', CURRENT_TIMESTAMP, and the
\* switch on job_type up to the await of the task; the default branch
\* throws into the catch at line 191
InsertRun(w) ==
  /\ pc[w] = "insert"
  /\ IF ~runsTableExists
       THEN /\ AfterRunJob(w, FALSE, TRUE, "no such table: scheduler_job_runs")
            /\ UNCHANGED <<runs, last_insert_rowid>>
       ELSE /\ Len(runs) < MaxRuns
            /\ runs' = Append(runs, RunRow(frame[w].jobId, now, frame[w].via))
            /\ last_insert_rowid' = Len(runs) + 1
            /\ UNCHANGED <<call, ret>>
            /\ IF frame[w].job_type \in BoundJobTypes
                 THEN /\ pc' = [pc EXCEPT ![w] = "task"]
                      /\ frame' = [frame EXCEPT ![w].runId = Len(runs) + 1]
                 ELSE /\ pc' = [pc EXCEPT ![w] = "closeFailed"]
                      /\ frame' = [frame EXCEPT ![w].runId = Len(runs) + 1,
                                                ![w].error = "Unknown job type"]
  /\ UNCHANGED <<storeVars, now, sqlite_sequence, ticks, edits, tableExists, runsTableExists,
                 jobs>>

\* UPDATE scheduler_job_runs SET status = ..., end_time = CURRENT_TIMESTAMP
CloseRun(rs, runId, status, t, result, error) ==
  [rs EXCEPT ![runId].status = status, ![runId].end_time = t,
             ![runId].result = result, ![runId].error = error]

\* the interval is not added
RescheduleWithoutInterval(js, jobId, t, interval) ==
  [js EXCEPT ![jobId].last_run_time = t, ![jobId].next_run_time = t]

\* the interval is not bound, and the datetime() of the UPDATE is NULL
RescheduleToNull(js, jobId, t, interval) ==
  [js EXCEPT ![jobId].last_run_time = t, ![jobId].next_run_time = NULL]

\* the next run is counted from the time the job was due
RescheduleFromDueTime(js, jobId, t, interval) ==
  [js EXCEPT ![jobId].last_run_time = t,
             ![jobId].next_run_time = js[jobId].next_run_time + interval]

\* the interval is subtracted
RescheduleBackwards(js, jobId, t, interval) ==
  [js EXCEPT ![jobId].last_run_time = t, ![jobId].next_run_time = t - interval]

\* UPDATE scheduler_jobs SET last_run_time = CURRENT_TIMESTAMP,
\*   next_run_time = datetime('now', '+' || interval_hours || ' hours')
Reschedule(js, jobId, t, interval) ==
  [js EXCEPT ![jobId].last_run_time = t, ![jobId].next_run_time = t + interval]

\* lines 167-175
CloseCompleted(w) ==
  /\ pc[w] = "closeCompleted"
  /\ runs' = CloseRun(runs, frame[w].runId, "completed", now, frame[w].result,
                      NoText)
  /\ pc' = [pc EXCEPT ![w] = "rescheduleCompleted"]
  /\ UNCHANGED <<storeVars, now, last_insert_rowid, sqlite_sequence, ticks, edits, tableExists, runsTableExists, jobs, call, frame, ret>>

\* lines 177-190
RescheduleCompleted(w) ==
  /\ pc[w] = "rescheduleCompleted"
  /\ jobs' = Reschedule(jobs, frame[w].jobId, now, frame[w].interval_hours)
  /\ AfterRunJob(w, TRUE, FALSE, NoText)
  /\ UNCHANGED <<storeVars, now, last_insert_rowid, sqlite_sequence, ticks, edits, tableExists, runsTableExists, runs>>

\* lines 191-202
CloseFailed(w) ==
  /\ pc[w] = "closeFailed"
  /\ runs' = CloseRun(runs, frame[w].runId, "failed", now, runs[frame[w].runId].result,
                      ErrorMessage(frame[w].error))
  /\ pc' = [pc EXCEPT ![w] = "rescheduleFailed"]
  /\ UNCHANGED <<storeVars, now, last_insert_rowid, sqlite_sequence, ticks, edits, tableExists, runsTableExists, jobs, call, frame, ret>>

\* the failure branch returns without the UPDATE of the job
RescheduleFailedKeepsJob(w) ==
  /\ pc[w] = "rescheduleFailed"
  /\ AfterRunJob(w, FALSE, FALSE, ErrorMessage(frame[w].error))
  /\ UNCHANGED <<storeVars, now, last_insert_rowid, sqlite_sequence, ticks, edits, tableExists, runsTableExists, jobs, runs>>

\* lines 204-217
RescheduleFailed(w) ==
  /\ pc[w] = "rescheduleFailed"
  /\ jobs' = Reschedule(jobs, frame[w].jobId, now, frame[w].interval_hours)
  /\ AfterRunJob(w, FALSE, FALSE, ErrorMessage(frame[w].error))
  /\ UNCHANGED <<storeVars, now, last_insert_rowid, sqlite_sequence, ticks, edits, tableExists, runsTableExists, runs>>

\* --------------------------------------------------------- store faults
\* The store rejects the statement an invocation is awaiting. Inside the
\* inner try (lines 154-190) the rejection is caught at line 191 like a
\* throwing task; anywhere else it makes runJob throw (line 219), which
\* processAllDueJobs catches at line 257.
StatementFails(w) ==
  /\ pc[w] \in {"select", "insert", "closeCompleted", "rescheduleCompleted",
                "closeFailed", "rescheduleFailed"}
  /\ IF pc[w] \in {"closeCompleted", "rescheduleCompleted"}
       THEN /\ pc' = [pc EXCEPT ![w] = "closeFailed"]
            /\ frame' = [frame EXCEPT ![w].error = "store error"]
            /\ UNCHANGED <<call, ret>>
       ELSE AfterRunJob(w, FALSE, TRUE, "store error")
  /\ UNCHANGED <<storeVars, now, last_insert_rowid, sqlite_sequence, ticks, edits, tableExists, runsTableExists, jobs, runs>>

\* ------------------------------------------------------ rows set by hand
\* No code of the repository pauses a job or inserts a job of another
\* type: the status and job_type columns are free text that an operator
\* edits in the store, between invocations.
Quiet == \A w \in Invocations : pc[w] = "idle"

SetJobStatus(j, status) ==
  /\ Quiet
  /\ j \in DOMAIN jobs
  /\ jobs[j].status # status
  /\ edits < MaxEdits
  /\ edits' = edits + 1
  /\ jobs' = [jobs EXCEPT ![j].status = status]
  /\ UNCHANGED <<storeVars, now, last_insert_rowid, sqlite_sequence, ticks, tableExists, runsTableExists, runs, pc, call, frame, ret>>

InsertJob(type, interval) ==
  /\ Quiet
  /\ tableExists
  /\ Len(jobs) < MaxJobs
  /\ edits < MaxEdits
  /\ edits' = edits + 1
  /\ jobs' = Append(jobs, JobRow(type, interval, now))
  /\ last_insert_rowid' = Len(jobs) + 1
  /\ UNCHANGED <<storeVars, now, sqlite_sequence, ticks, tableExists, runsTableExists, runs, pc, call, frame, ret>>

\* ======================================================================
\* The services the scheduler's tasks and the cron route call: the change
\* detector (src/monitoring-service.ts), the profitability engine
\* (src/profitability-service.ts, src/amazon-sp-api-client.ts) and the alert
\* dispatcher (src/alert-service.ts, EmailService in src/crawler-config.ts).
\* One invocation at a time; every awaited statement is one step.
\* Prices are amounts in cents. What the code reports of them (a profit, a
\* percentage) is kept exact; what it decides on them (priceChanged,
\* isProfitable, the thresholds of the dispatcher) is decided on the doubles
\* its arithmetic computes.
\* ======================================================================

\* -------------------------------------------------- bounds of the services
\* number of calls of service entry points in one behaviour
MaxCalls == 2

\* ------------------------------------------------------ program constants
\* MONITORING_CONFIG.priceChangeThresholds, in cents and in percent
MinAbsoluteChange == 100
MinPercentageChange == 5
\* MONITORING_CONFIG.defaultSchedule, in hours
DefaultSchedule == 24
\* MONITORING_CONFIG.batchSize
BatchSize == 100
\* MONITORING_CONFIG.dataRetention, in days
PriceHistoryDays == 90
AlertHistoryDays == 30
\* MONITORING_CONFIG.profitabilityThresholds, in percent and in cents
MonitoringMinMarginPercent == 15
MonitoringMinProfitAmount == 500
\* SP_API_CONFIG.profitabilityThresholds, in percent and in cents
MinMarginPercent == 15
MinProfitAmount == 500
\* ALERT_CONFIG.thresholds, in percent and in cents
AlertMinMarginPercent == 15
AlertMinProfitAmount == 500
\* ALERT_CONFIG.frequency.minTimeBetweenAlerts, in hours
MinTimeBetweenAlerts == 24
\* the default limit of calculateProfitabilityForAllProducts
BackfillLimit == 100
\* the default limit of sendAllProfitableOpportunityAlerts
AlertLimit == 10

\* the clock of a behaviour of the services starts two days after the
\* listings were crawled, and advances by half a day at a time
HalfDayHours == OneDayHours \div 2
StartHour == 2 * OneDayHours
StoreTickSteps == {HalfDayHours}

\* --------------------------------------------------------------- numbers
Abs(x) == IF x < 0 THEN -x ELSE x

RECURSIVE GCD(_, _)
GCD(a, b) == IF b = 0 THEN a ELSE GCD(b, a % b)

\* A quotient the code reports is kept as a fraction in lowest terms. Zero
\* is the number 0.
Zero == [num |-> 0, den |-> 1]

\* (n / d) * 100 for d > 0
Percent(n, d) ==
  LET g == GCD(Abs(n) * 100, d)
  IN [num |-> (n * 100) \div g, den |-> d \div g]

\* ------------------------------------- the numbers of JavaScript and SQLite
\* The prices, fees and thresholds of the code are IEEE 754 doubles
\* (JavaScript numbers, REAL columns), and its decisions are comparisons of
\* the doubles its subtractions, divisions and multiplications round to.
\* A natural number of any size is the sequence of its digits in base
\* 2^15, lowest first, without leading zeros.
Limb == 2^15

RECURSIVE BigOf(_)
BigOf(n) == IF n = 0 THEN <<>> ELSE <<n % Limb>> \o BigOf(n \div Limb)

RECURSIVE BigTrim(_)
BigTrim(a) ==
  IF a # <<>> /\ a[Len(a)] = 0 THEN BigTrim(SubSeq(a, 1, Len(a) - 1)) ELSE a

BigDigit(a, k) == IF k <= Len(a) THEN a[k] ELSE 0

\* -1, 0 or 1 as a is below, equal to or above b
RECURSIVE BigCmpFrom(_, _, _)
BigCmpFrom(a, b, k) ==
  IF k = 0 THEN 0
  ELSE IF a[k] < b[k] THEN -1
  ELSE IF a[k] > b[k] THEN 1
  ELSE BigCmpFrom(a, b, k - 1)

BigCmp(a, b) ==
  IF Len(a) < Len(b) THEN -1
  ELSE IF Len(a) > Len(b) THEN 1
  ELSE BigCmpFrom(a, b, Len(a))

\* the digits of a + b + carry from the k-th on
RECURSIVE BigAddFrom(_, _, _, _)
BigAddFrom(a, b, k, carry) ==
  IF k > Len(a) /\ k > Len(b)
    THEN IF carry = 0 THEN <<>> ELSE <<carry>>
    ELSE <<(BigDigit(a, k) + BigDigit(b, k) + carry) % Limb>>
         \o BigAddFrom(a, b, k + 1,
                       (BigDigit(a, k) + BigDigit(b, k) + carry) \div Limb)

BigAdd(a, b) == BigAddFrom(a, b, 1, 0)

\* a - b for a >= b
RECURSIVE BigSubFrom(_, _, _, _)
BigSubFrom(a, b, k, borrow) ==
  IF k > Len(a) THEN <<>>
  ELSE <<(a[k] - BigDigit(b, k) - borrow) % Limb>>
       \o BigSubFrom(a, b, k + 1,
                     IF a[k] - BigDigit(b, k) - borrow < 0 THEN 1 ELSE 0)

BigSub(a, b) == BigTrim(BigSubFrom(a, b, 1, 0))

\* a * n for 0 <= n <= 2^15
RECURSIVE BigTimesFrom(_, _, _, _)
BigTimesFrom(a, n, k, carry) ==
  IF k > Len(a) THEN BigOf(carry)
  ELSE <<(a[k] * n + carry) % Limb>>
       \o BigTimesFrom(a, n, k + 1, (a[k] * n + carry) \div Limb)

BigTimes(a, n) == IF n = 0 THEN <<>> ELSE BigTimesFrom(a, n, 1, 0)

\* a * 2^15
BigTimesLimb(a) == IF a = <<>> THEN <<>> ELSE <<0>> \o a

RECURSIVE BigMul(_, _)
BigMul(a, b) ==
  IF a = <<>> \/ b = <<>> THEN <<>>
  ELSE BigAdd(BigTimes(a, b[1]), BigTimesLimb(BigMul(a, Tail(b))))

\* the quotient of a by n, for 0 < n <= 2^15, digits from k down
RECURSIVE BigOverFrom(_, _, _, _)
BigOverFrom(a, n, k, rem) ==
  IF k = 0 THEN <<>>
  ELSE BigOverFrom(a, n, k - 1, (rem * Limb + a[k]) % n)
       \o <<(rem * Limb + a[k]) \div n>>

BigOver(a, n) == BigTrim(BigOverFrom(a, n, Len(a), 0))

BigOdd(a) == a # <<>> /\ a[1] % 2 = 1

\* a * 2^s and the whole part of a / 2^s
BigShl(a, s) ==
  IF a = <<>> THEN <<>>
  ELSE [k \in 1..(s \div 15) |-> 0] \o BigTimes(a, 2^(s % 15))

BigShr(a, s) ==
  IF s \div 15 >= Len(a) THEN <<>>
  ELSE BigOver(SubSeq(a, (s \div 15) + 1, Len(a)), 2^(s % 15))

\* the number of binary digits
RECURSIVE Bits(_)
Bits(n) == IF n = 0 THEN 0 ELSE 1 + Bits(n \div 2)

BigBits(a) == IF a = <<>> THEN 0 ELSE 15 * (Len(a) - 1) + Bits(a[Len(a)])

\* the largest digit q between lo and hi with d * q <= r
RECURSIVE BigDigitOf(_, _, _, _)
BigDigitOf(r, d, lo, hi) ==
  IF lo = hi THEN lo
  ELSE IF BigCmp(BigTimes(d, (lo + hi + 1) \div 2), r) <= 0
         THEN BigDigitOf(r, d, (lo + hi + 1) \div 2, hi)
         ELSE BigDigitOf(r, d, lo, ((lo + hi + 1) \div 2) - 1)

\* Long division of n by d > 0, digit by digit from the k-th down: r is
\* what is left of the digits above with the k-th digit brought down, and
\* q is the digit of the quotient
RECURSIVE BigDivFrom(_, _, _, _)
RECURSIVE BigDivDigit(_, _, _, _, _)
BigDivFrom(n, d, k, rem) ==
  IF k = 0 THEN [quot |-> <<>>, rem |-> rem]
  ELSE BigDivDigit(n, d, k, BigTrim(<<n[k]>> \o rem),
                   IF BigCmp(BigTrim(<<n[k]>> \o rem), d) < 0 THEN 0
                   ELSE BigDigitOf(BigTrim(<<n[k]>> \o rem), d, 1, Limb - 1))

BigDivPut(q, rest) == [quot |-> rest.quot \o <<q>>, rem |-> rest.rem]

BigDivDigit(n, d, k, r, q) ==
  BigDivPut(q, BigDivFrom(n, d, k - 1, BigSub(r, BigTimes(d, q))))

BigDivTrim(h) == [quot |-> BigTrim(h.quot), rem |-> h.rem]

\* quotient and remainder of n by d > 0
BigDivMod(n, d) == BigDivTrim(BigDivFrom(n, d, Len(n), <<>>))

\* A double is (neg ? -1 : 1) * m * 2^e with m below 2^53 (or 2^53
\* itself). The amounts of the program are far from the largest and the
\* smallest double, so no result overflows or is subnormal.
Double(neg, m, e) ==
  [neg |-> neg /\ m # <<>>, m |-> m, e |-> IF m = <<>> THEN 0 ELSE e]

\* round to nearest, ties to even: q is the whole part of a quotient and
\* half is how twice its remainder compares with the divisor
RoundToEven(q, half) ==
  IF half > 0 \/ (half = 0 /\ BigOdd(q)) THEN BigAdd(q, <<1>>) ELSE q

\* m * 2^e with the lowest s binary digits of m rounded off, q being the
\* whole part of m / 2^s
RoundOffTo(neg, m, e, s, q) ==
  Double(neg,
         RoundToEven(q, BigCmp(BigShl(BigSub(m, BigShl(q, s)), 1),
                               BigShl(<<1>>, s))),
         e + s)

RoundOff(neg, m, e, s) == RoundOffTo(neg, m, e, s, BigShr(m, s))

\* the double nearest to m * 2^e
Round53(neg, m, e) ==
  IF BigBits(m) <= 53 THEN Double(neg, m, e)
  ELSE RoundOff(neg, m, e, BigBits(m) - 53)

\* a whole number as a double
DoubleOf(n) == Double(n < 0, BigOf(Abs(n)), 0)

DoubleAbs(x) == [x EXCEPT !.neg = FALSE]
DoubleNeg(x) == Double(~x.neg, x.m, x.e)

\* a * 2^e of the sign xneg plus b * 2^e of the sign yneg
AddAligned(xneg, a, yneg, b, e) ==
  Round53(IF xneg = yneg \/ BigCmp(a, b) >= 0 THEN xneg ELSE yneg,
          IF xneg = yneg THEN BigAdd(a, b)
          ELSE IF BigCmp(a, b) >= 0 THEN BigSub(a, b) ELSE BigSub(b, a),
          e)

AddFrom(x, y, e) ==
  AddAligned(x.neg, BigShl(x.m, x.e - e), y.neg, BigShl(y.m, y.e - e), e)

\* x + y and x - y
DoubleAdd(x, y) == AddFrom(x, y, IF x.e < y.e THEN x.e ELSE y.e)
DoubleSub(x, y) == DoubleAdd(x, DoubleNeg(y))

\* x * y
DoubleMul(x, y) == Round53(x.neg # y.neg, BigMul(x.m, y.m), x.e + y.e)

\* n / d as a double of the exponent e, the whole part of n / d having 53
\* binary digits
DivRounded(neg, h, d, e) ==
  Double(neg, RoundToEven(h.quot, BigCmp(BigShl(h.rem, 1), d)), e)

DivOf(neg, n, d, e) == DivRounded(neg, BigDivMod(n, d), d, e)

\* x / y with the dividend scaled by 2^k
DivScaled(x, y, k) ==
  DivOf(x.neg # y.neg,
        IF k >= 0 THEN BigShl(x.m, k) ELSE x.m,
        IF k >= 0 THEN y.m ELSE BigShl(y.m, 0 - k),
        x.e - y.e - k)

\* k is k0 or k0 - 1, whichever gives the quotient 53 binary digits
DivFrom(x, y, k0) ==
  DivScaled(x, y, IF BigCmp(BigShl(x.m, k0), BigShl(y.m, 53)) >= 0
                    THEN k0 - 1 ELSE k0)

\* x / y for y other than 0, rounded once
DoubleDiv(x, y) ==
  IF x.m = <<>> THEN x ELSE DivFrom(x, y, 53 + BigBits(y.m) - BigBits(x.m))

\* x >= y
GeAligned(xneg, a, yneg, b) ==
  IF a = <<>> /\ b = <<>> THEN TRUE
  ELSE IF xneg # yneg THEN yneg
  ELSE IF xneg THEN BigCmp(a, b) <= 0
  ELSE BigCmp(a, b) >= 0

GeFrom(x, y, e) ==
  GeAligned(x.neg, BigShl(x.m, x.e - e), y.neg, BigShl(y.m, y.e - e))

DoubleGe(x, y) == GeFrom(x, y, IF x.e < y.e THEN x.e ELSE y.e)

\* an amount of cents as the double of its dollars: 2020 is 20.20
AmountOf(cents) == DoubleDiv(DoubleOf(cents), DoubleOf(100))

\* A definition without parameters is computed once. The doubles of the
\* thresholds, and below the doubles of the prices and fees of the
\* specifications, are kept in such definitions; for any other amount they
\* are computed where they are needed.
ThresholdAmounts ==
  {MinAbsoluteChange, MonitoringMinProfitAmount, MinProfitAmount,
   AlertMinProfitAmount}
AmountAt == [cents \in ThresholdAmounts |-> AmountOf(cents)]
Amount(cents) ==
  IF cents \in ThresholdAmounts THEN AmountAt[cents] ELSE AmountOf(cents)

\* the prices of listings, and the marketplace prices and fees of
\* products, in the specifications
ListingPrices ==
  {0, 200, 250, 1000, 1100, 1200, 1201, 1300, 1800, 1919, 2000, 2020, 2100,
   3134, 7000, 7001, 8000, 10000, 10100}
MarketPrices == {0, 2000, 4040, 10000}
FeeAmounts == {0, 300, 1500}

\* amazonPrice > 0 ? (profit / amazonPrice) * 100 : 0 on doubles
MarginOf(amazonPrice, price, profit) ==
  [profit |-> profit,
   margin |-> IF amazonPrice > 0
                THEN DoubleMul(DoubleDiv(profit, price), DoubleOf(100))
                ELSE DoubleOf(0)]

\* amazonPrice - sourcingPrice - fees, from left to right, on doubles
ProfitOf(price, sourcing, fees) == DoubleSub(DoubleSub(price, sourcing), fees)

\* profit and margin as the engine (profitability-service.ts lines 67-68,
\* amazon-sp-api-client.ts lines 197 and 200) and the SQL of the dispatcher
\* (alert-service.ts lines 59-60 and 111-112) compute them
ProfitAndMarginFrom(amazonPrice, price, sourcing, fees) ==
  MarginOf(amazonPrice, price, ProfitOf(price, sourcing, fees))

ProfitAndMarginOf(amazonPrice, sourcingPrice, fees) ==
  ProfitAndMarginFrom(amazonPrice, AmountOf(amazonPrice),
                      AmountOf(sourcingPrice), AmountOf(fees))

ProfitAndMarginAt ==
  [amazonPrice \in MarketPrices, sourcingPrice \in ListingPrices,
   fees \in FeeAmounts |-> ProfitAndMarginOf(amazonPrice, sourcingPrice, fees)]

ProfitAndMargin(amazonPrice, sourcingPrice, fees) ==
  IF /\ amazonPrice \in MarketPrices
     /\ sourcingPrice \in ListingPrices
     /\ fees \in FeeAmounts
    THEN ProfitAndMarginAt[amazonPrice, sourcingPrice, fees]
    ELSE ProfitAndMarginOf(amazonPrice, sourcingPrice, fees)

\* ------------------------------------------------------------------ rows
\* filled is not a column: it records that calculateProfitability wrote
\* the price and the fees it got from the oracle
ProductRow(price, fees) ==
  [amazon_price |-> price, amazon_fees |-> fees, filled |-> FALSE]

WebsiteRow(productId, price, stock, checked) ==
  [product_id |-> productId, price |-> price, stock_status |-> stock,
   last_checked |-> checked]

HistoryRow(websiteId, price, stock, t) ==
  [website_id |-> websiteId, price |-> price, stock_status |-> stock,
   recorded_at |-> t]

ProductAlertRow(productId, alertType, t) ==
  [product_id |-> productId, alert_type |-> alertType, created_at |-> t]

\* the subject of an alert mail names the product
AlertHistoryRow(productId, t) == [subject |-> productId, created_at |-> t]

\* every order of a set of keys that an ascending sort key leaves open, cut
\* at a LIMIT; rank gives the sort key of each key
Orderings(S, rank, limit) ==
  LET n == Cardinality(S)
      m == IF limit < n THEN limit ELSE n
  IN {SubSeq(s, 1, m) : s \in
        {t \in [1..n -> S] :
           /\ \A i, k \in 1..n : i # k => t[i] # t[k]
           /\ \A i, k \in 1..n : i < k => rank[t[i]] <= rank[t[k]]}}

\* ----------------------------------------------------------------- clock
Advance ==
  /\ ticks < MaxTicks
  /\ \E d \in StoreTickSteps : now' = now + d
  /\ ticks' = ticks + 1
  /\ UNCHANGED <<edits, tableExists, runsTableExists, jobs, runs, pc, call, frame, ret>>
  /\ UNCHANGED <<storeVars, last_insert_rowid, sqlite_sequence>>

\* the scheduler's part of the state while a service is looked at
schedulerVars == <<edits, tableExists, runsTableExists, jobs, runs, pc, call, frame, ret>>

\* the stock texts of the listings: two that determineStockStatus reads as
\* in stock ('in stock', 'ships') and one it reads as out of stock
StockTexts == {"In Stock", "Ships today", "Sold out"}

\* String.prototype.toLowerCase, on the letters A to Z
UpperCaseLetters == "ABCDEFGHIJKLMNOPQRSTUVWXYZ"
LowerCaseLetters == "abcdefghijklmnopqrstuvwxyz"

LowerCaseLetter(c) ==
  IF \E i \in 1..Len(UpperCaseLetters) : SubSeq(UpperCaseLetters, i, i) = c
    THEN LET i == CHOOSE i \in 1..Len(UpperCaseLetters) :
                    SubSeq(UpperCaseLetters, i, i) = c
         IN SubSeq(LowerCaseLetters, i, i)
    ELSE c

RECURSIVE toLowerCase(_)
toLowerCase(text) ==
  IF text = "" THEN ""
  ELSE LowerCaseLetter(SubSeq(text, 1, 1))
         \o toLowerCase(SubSeq(text, 2, Len(text)))

\* String.prototype.includes
includes(text, phrase) ==
  \E i \in 1..(Len(text) - Len(phrase) + 1) :
    SubSeq(text, i, i + Len(phrase) - 1) = phrase

\* part_005 lines 272-280 and 289-296
outOfStockPhrases ==
  <<"out of stock", "sold out", "unavailable", "not available",
    "no longer available", "out-of-stock", "currently unavailable">>
inStockPhrases ==
  <<"in stock", "available", "add to cart", "buy now", "in-stock", "ships">>

\* the in-stock phrases are looked for first
determineStockStatusInStockFirst(stockText) ==
  LET lowerText == toLowerCase(stockText)
  IN IF stockText = "" THEN FALSE
     ELSE IF \E k \in DOMAIN inStockPhrases :
               includes(lowerText, inStockPhrases[k]) THEN TRUE
     ELSE FALSE

\* determineStockStatus (part_005 lines 266-306): an empty text is out of
\* stock; a text with an out-of-stock phrase is out of stock; a text with
\* an in-stock phrase is in stock; any other text is out of stock
determineStockStatus(stockText) ==
  LET lowerText == toLowerCase(stockText)
  IN IF stockText = "" THEN FALSE
     ELSE IF \E k \in DOMAIN outOfStockPhrases :
               includes(lowerText, outOfStockPhrases[k]) THEN FALSE
     ELSE IF \E k \in DOMAIN inStockPhrases :
               includes(lowerText, inStockPhrases[k]) THEN TRUE
     ELSE FALSE

\* ---------------------------------------------- the profit columns of SQL
\* (p.amazon_price - w.price - p.amazon_fees) and that divided by
\* p.amazon_price * 100: a NULL operand or a division by 0 makes the column
\* NULL, and a comparison with NULL selects nothing
SqlHasMargin(p) ==
  /\ p.amazon_price # NULL
  /\ p.amazon_fees # NULL
  /\ p.amazon_price > 0

\* the column profit in cents, for ORDER BY profit DESC
SqlProfit(p, w) == p.amazon_price - w.price - p.amazon_fees

\* margin >= ? AND profit >= ? in SQL (alert-service.ts lines 126-127), and
\* the condition under which margin < minMarginPercent || profit <
\* minProfitAmount is false in JavaScript (lines 73-74). The columns are
\* computed on REAL operands.
SqlAtLeast(columns, minMargin, minProfit) ==
  /\ DoubleGe(columns.margin, DoubleOf(minMargin))
  /\ DoubleGe(columns.profit, Amount(minProfit))

\* the thresholds of the configurations
ThresholdMargins ==
  {MonitoringMinMarginPercent, MinMarginPercent, AlertMinMarginPercent}
ThresholdProfits ==
  {MonitoringMinProfitAmount, MinProfitAmount, AlertMinProfitAmount}

\* the comparison on the columns of a product and a listing, computed once
\* for the prices, fees and thresholds of the specifications
SqlAtLeastOf(amazonPrice, price, fees, minMargin, minProfit) ==
  SqlAtLeast(ProfitAndMargin(amazonPrice, price, fees), minMargin, minProfit)

SqlAtLeastAt ==
  [amazonPrice \in MarketPrices, price \in ListingPrices,
   fees \in FeeAmounts, minMargin \in ThresholdMargins,
   minProfit \in ThresholdProfits |->
     SqlAtLeastOf(amazonPrice, price, fees, minMargin, minProfit)]

SqlProfitable(p, w, minMargin, minProfit) ==
  /\ SqlHasMargin(p)
  /\ IF /\ p.amazon_price \in MarketPrices
        /\ w.price \in ListingPrices
        /\ p.amazon_fees \in FeeAmounts
        /\ minMargin \in ThresholdMargins
        /\ minProfit \in ThresholdProfits
       THEN SqlAtLeastAt[p.amazon_price, w.price, p.amazon_fees, minMargin,
                         minProfit]
       ELSE SqlAtLeastOf(p.amazon_price, w.price, p.amazon_fees, minMargin,
                         minProfit)

\* JOIN websites w ON p.id = w.product_id
Joined(i) == websites[i].product_id \in DOMAIN products

\* ----------------------------------------------------- recordPriceUpdate
\* website.price || 0
OldPrice(website) == IF website.price = NULL THEN 0 ELSE website.price

\* a stored price of 0 counts as a change of 100 percent
PriceChangePercentOfNothing(oldPrice, newPrice) ==
  IF oldPrice > 0 THEN Percent(newPrice - oldPrice, oldPrice)
  ELSE Percent(1, 1)

\* oldPrice > 0 ? (priceChangeAmount / oldPrice) * 100 : 0
PriceChangePercent(oldPrice, newPrice) ==
  IF oldPrice > 0 THEN Percent(newPrice - oldPrice, oldPrice) ELSE Zero

\* the amount alone decides
PriceChangedByAmount(oldPrice, newPrice) ==
  DoubleGe(DoubleAbs(DoubleSub(AmountOf(newPrice), AmountOf(oldPrice))),
           Amount(MinAbsoluteChange))

\* Math.abs(priceChangeAmount) >= minAbsoluteChange &&
\* Math.abs(priceChangePercent) >= minPercentageChange (lines 78-79)
ReachesThresholds(priceChangeAmount, priceChangePercent) ==
  /\ DoubleGe(DoubleAbs(priceChangeAmount), Amount(MinAbsoluteChange))
  /\ DoubleGe(DoubleAbs(priceChangePercent), DoubleOf(MinPercentageChange))

\* oldPrice > 0 ? (priceChangeAmount / oldPrice) * 100 : 0 (line 76)
PriceChangedBy(oldPrice, old, priceChangeAmount) ==
  ReachesThresholds(priceChangeAmount,
                    IF oldPrice > 0
                      THEN DoubleMul(DoubleDiv(priceChangeAmount, old),
                                     DoubleOf(100))
                      ELSE DoubleOf(0))

\* priceChangeAmount = newPrice - oldPrice (line 75)
PriceChangedFrom(oldPrice, old, new) ==
  PriceChangedBy(oldPrice, old, DoubleSub(new, old))

\* lines 73-79 on doubles
PriceChangedOf(oldPrice, newPrice) ==
  PriceChangedFrom(oldPrice, AmountOf(oldPrice), AmountOf(newPrice))

PriceChangedAt ==
  [oldPrice \in ListingPrices, newPrice \in ListingPrices |->
     PriceChangedOf(oldPrice, newPrice)]

\* lines 78-79
PriceChanged(oldPrice, newPrice) ==
  IF oldPrice \in ListingPrices /\ newPrice \in ListingPrices
    THEN PriceChangedAt[oldPrice, newPrice]
    ELSE PriceChangedOf(oldPrice, newPrice)

\* line 81: the two texts are compared
StockChanged(oldStock, newStock) == newStock # oldStock

\* the locals of recordPriceUpdate at its call. before, events and at are
\* not locals of the code: they keep the row that the SELECT read, the
\* number of rows of price_history and the clock at that time. via is "cycle" when
\* runMonitoringCycle made the call and "direct" otherwise.
NewRecordPriceUpdate(websiteId, newPrice, newStockStatus, via) ==
  [op |-> "recordPriceUpdate", websiteId |-> websiteId, newPrice |-> newPrice,
   newStockStatus |-> newStockStatus, via |-> via,
   priceChanged |-> FALSE, stockChanged |-> FALSE,
   priceChangeAmount |-> 0, priceChangePercent |-> Zero,
   before |-> WebsiteRow(0, NULL, NoText, NULL), events |-> 0, at |-> NULL]

\* the value recordPriceUpdate returns (lines 111-116), with its arguments
RecordPriceUpdateResult(l) ==
  [kind |-> "recordPriceUpdate", websiteId |-> l.websiteId,
   newPrice |-> l.newPrice, newStockStatus |-> l.newStockStatus,
   before |-> l.before,
   priceChanged |-> l.priceChanged, stockChanged |-> l.stockChanged,
   priceChangeAmount |-> l.priceChangeAmount,
   priceChangePercent |-> l.priceChangePercent]

RaisedOut(msg) == [kind |-> "raised", error |-> msg]

\* What follows the end of a recordPriceUpdate call. A direct call ends the
\* invocation. In runMonitoringCycle (lines 245-260) a thrown error is
\* logged, the counters are advanced after a return, and the loop calls
\* recordPriceUpdate for the next listing with the values it selected
\* (lines 249-253) or goes on to findProfitableOpportunities.
AfterRecordPriceUpdate(raised, msg) ==
  IF loc.via = "direct"
    THEN /\ mpc' = "idle"
         /\ out' = IF raised THEN RaisedOut(msg) ELSE RecordPriceUpdateResult(loc)
         /\ loc' = NoLoc
         /\ UNCHANGED batch
    ELSE LET b == [batch EXCEPT
                     !.priceChanges = IF ~raised /\ loc.priceChanged THEN @ + 1 ELSE @,
                     !.stockChanges = IF ~raised /\ loc.stockChanged THEN @ + 1 ELSE @,
                     !.idx = @ + 1]
         IN /\ batch' = b
            /\ UNCHANGED out
            /\ IF b.idx > Len(b.websites)
                 THEN /\ mpc' = "cycleFind"
                      /\ loc' = NoLoc
                 ELSE /\ mpc' = "rpuSelect"
                      /\ loc' = NewRecordPriceUpdate(b.websites[b.idx].id,
                                                     b.websites[b.idx].price,
                                                     b.websites[b.idx].stock_status,
                                                     "cycle")

\* recordPriceUpdate called as an entry point
StartRecordPriceUpdate(websiteId, newPrice, newStockStatus) ==
  /\ mpc = "idle"
  /\ calls < MaxCalls
  /\ calls' = calls + 1
  /\ mpc' = "rpuSelect"
  /\ loc' = NewRecordPriceUpdate(websiteId, newPrice, newStockStatus, "direct")
  /\ out' = NoOut
  /\ UNCHANGED <<now, last_insert_rowid, sqlite_sequence, ticks, schedulerVars, products, websites, price_history,
                 product_alerts, productAlertsTable, alert_history, outbox,
                 suppressed, attempts, route, spApiCredentials, spClient, appSettings, apiKey, alertHistoryTable, runResult,
                 oracleCalls, batch>>

\* lines 63-84: the SELECT of the listing, and the decision
RpuSelect ==
  /\ mpc = "rpuSelect"
  /\ IF loc.websiteId \notin DOMAIN websites
       THEN AfterRecordPriceUpdate(TRUE, "Website not found")
       ELSE LET website == websites[loc.websiteId]
                oldPrice == OldPrice(website)
                priceChanged == PriceChanged(oldPrice, loc.newPrice)
                stockChanged == StockChanged(website.stock_status, loc.newStockStatus)
            IN /\ loc' = [loc EXCEPT
                            !.priceChanged = priceChanged,
                            !.stockChanged = stockChanged,
                            !.priceChangeAmount = loc.newPrice - oldPrice,
                            !.priceChangePercent =
                               PriceChangePercent(oldPrice, loc.newPrice),
                            !.before = website,
                            !.events = Len(price_history),
                            !.at = now]
               /\ mpc' = IF priceChanged \/ stockChanged
                           THEN "rpuUpdate" ELSE "rpuTouch"
               /\ UNCHANGED <<batch, out>>
  /\ UNCHANGED <<now, last_insert_rowid, sqlite_sequence, ticks, schedulerVars, products, websites, price_history,
                 product_alerts, productAlertsTable, alert_history, outbox,
                 suppressed, attempts, route, spApiCredentials, spClient, appSettings, apiKey, alertHistoryTable, runResult,
                 oracleCalls, calls>>

\* the price and the stock are written without the time of the check
RpuUpdateWithoutTime ==
  /\ mpc = "rpuUpdate"
  /\ websites' = [websites EXCEPT
                    ![loc.websiteId].price = loc.newPrice,
                    ![loc.websiteId].stock_status = loc.newStockStatus]
  /\ mpc' = "rpuInsert"
  /\ UNCHANGED <<now, last_insert_rowid, sqlite_sequence, ticks, schedulerVars, products, price_history,
                 product_alerts, productAlertsTable, alert_history, outbox,
                 suppressed, attempts, route, spApiCredentials, spClient, appSettings, apiKey, alertHistoryTable, runResult,
                 oracleCalls, calls, batch, loc, out>>

\* lines 86-93: UPDATE websites SET price, stock_status, last_checked
RpuUpdate ==
  /\ mpc = "rpuUpdate"
  /\ websites' = [websites EXCEPT
                    ![loc.websiteId].price = loc.newPrice,
                    ![loc.websiteId].stock_status = loc.newStockStatus,
                    ![loc.websiteId].last_checked = now]
  /\ mpc' = "rpuInsert"
  /\ UNCHANGED <<now, last_insert_rowid, sqlite_sequence, ticks, schedulerVars, products, price_history,
                 product_alerts, productAlertsTable, alert_history, outbox,
                 suppressed, attempts, route, spApiCredentials, spClient, appSettings, apiKey, alertHistoryTable, runResult,
                 oracleCalls, calls, batch, loc, out>>

\* the history row carries the values the listing had before the update
RpuInsertStoredBefore ==
  /\ mpc = "rpuInsert"
  /\ price_history' = Append(price_history,
                             HistoryRow(loc.websiteId, loc.before.price,
                                        loc.before.stock_status, now))
  /\ AfterRecordPriceUpdate(FALSE, NoText)
  /\ last_insert_rowid' = sqlite_sequence.price_history + 1
  /\ sqlite_sequence' = [sqlite_sequence EXCEPT !.price_history = @ + 1]
  /\ UNCHANGED <<now, ticks, schedulerVars, products, websites,
                 product_alerts, productAlertsTable, alert_history, outbox,
                 suppressed, attempts, route, spApiCredentials, spClient, appSettings, apiKey, alertHistoryTable, runResult,
                 oracleCalls, calls>>

\* lines 96-102: INSERT INTO price_history, and the return
RpuInsert ==
  /\ mpc = "rpuInsert"
  /\ price_history' = Append(price_history,
                             HistoryRow(loc.websiteId, loc.newPrice,
                                        loc.newStockStatus, now))
  /\ AfterRecordPriceUpdate(FALSE, NoText)
  /\ last_insert_rowid' = sqlite_sequence.price_history + 1
  /\ sqlite_sequence' = [sqlite_sequence EXCEPT !.price_history = @ + 1]
  /\ UNCHANGED <<now, ticks, schedulerVars, products, websites,
                 product_alerts, productAlertsTable, alert_history, outbox,
                 suppressed, attempts, route, spApiCredentials, spClient, appSettings, apiKey, alertHistoryTable, runResult,
                 oracleCalls, calls>>

\* every check is logged: the branch without a change appends a row too
RpuTouchWithEvent ==
  /\ mpc = "rpuTouch"
  /\ websites' = [websites EXCEPT ![loc.websiteId].last_checked = now]
  /\ price_history' = Append(price_history,
                             HistoryRow(loc.websiteId, loc.newPrice,
                                        loc.newStockStatus, now))
  /\ AfterRecordPriceUpdate(FALSE, NoText)
  /\ last_insert_rowid' = sqlite_sequence.price_history + 1
  /\ sqlite_sequence' = [sqlite_sequence EXCEPT !.price_history = @ + 1]
  /\ UNCHANGED <<now, ticks, schedulerVars, products,
                 product_alerts, productAlertsTable, alert_history, outbox,
                 suppressed, attempts, route, spApiCredentials, spClient, appSettings, apiKey, alertHistoryTable, runResult,
                 oracleCalls, calls>>

\* lines 105-108: UPDATE websites SET last_checked, and the return
RpuTouch ==
  /\ mpc = "rpuTouch"
  /\ websites' = [websites EXCEPT ![loc.websiteId].last_checked = now]
  /\ AfterRecordPriceUpdate(FALSE, NoText)
  /\ UNCHANGED <<now, last_insert_rowid, sqlite_sequence, ticks, schedulerVars, products, price_history,
                 product_alerts, productAlertsTable, alert_history, outbox,
                 suppressed, attempts, route, spApiCredentials, spClient, appSettings, apiKey, alertHistoryTable, runResult,
                 oracleCalls, calls>>

RecordPriceUpdate == RpuSelect \/ RpuUpdate \/ RpuInsert \/ RpuTouch

\* --------------------------------------------------- runMonitoringCycle
\* the locals of runMonitoringCycle; websites holds the rows that
\* getWebsitesToMonitor returned
NewCycle(rows) ==
  [op |-> "runMonitoringCycle", websites |-> rows, idx |-> 1,
   priceChanges |-> 0, stockChanges |-> 0, opportunities |-> 0]

\* getWebsitesToMonitor: WHERE datetime(w.last_checked) <
\* datetime('now', '-24 hours') ORDER BY w.last_checked ASC LIMIT 100
WebsitesToMonitor(t) ==
  LET ids == {i \in DOMAIN websites :
                Joined(i) /\ websites[i].last_checked < t - DefaultSchedule}
      orders == Orderings(ids, [i \in ids |-> websites[i].last_checked],
                          BatchSize)
  IN {[k \in DOMAIN s |-> [id |-> s[k], price |-> websites[s[k]].price,
                           stock_status |-> websites[s[k]].stock_status]] :
        s \in orders}

\* lines 239-253: getWebsitesToMonitor and the first call of the loop
StartRunMonitoringCycle ==
  /\ mpc = "idle"
  /\ calls < MaxCalls
  /\ calls' = calls + 1
  /\ out' = NoOut
  /\ \E rows \in WebsitesToMonitor(now) :
       /\ batch' = NewCycle(rows)
       /\ IF rows = <<>>
            THEN /\ mpc' = "cycleFind"
                 /\ loc' = NoLoc
            ELSE /\ mpc' = "rpuSelect"
                 /\ loc' = NewRecordPriceUpdate(rows[1].id, rows[1].price,
                                                rows[1].stock_status, "cycle")
  /\ UNCHANGED <<now, last_insert_rowid, sqlite_sequence, ticks, schedulerVars, products, websites, price_history,
                 product_alerts, productAlertsTable, alert_history, outbox,
                 suppressed, attempts, route, spApiCredentials, spClient, appSettings, apiKey, alertHistoryTable, runResult,
                 oracleCalls>>

\* the date of the latest row of price_history of a listing
LatestRecorded(i) ==
  LET S == {h \in DOMAIN price_history : price_history[h].website_id = i}
  IN {h \in S : \A g \in S : price_history[g].recorded_at
                               <= price_history[h].recorded_at}

\* findProfitableOpportunities (lines 127-182): the number of rows of the
\* join of the profitable listings with their latest rows of price_history
ProfitableOpportunities(limit) ==
  LET rows == {<<i, h>> \in (DOMAIN websites) \X (DOMAIN price_history) :
                 /\ Joined(i)
                 /\ SqlProfitable(products[websites[i].product_id], websites[i],
                                  MonitoringMinMarginPercent,
                                  MonitoringMinProfitAmount)
                 /\ h \in LatestRecorded(i)}
  IN IF Cardinality(rows) > limit THEN limit ELSE Cardinality(rows)

\* line 263
CycleFind ==
  /\ mpc = "cycleFind"
  /\ batch' = [batch EXCEPT !.opportunities = ProfitableOpportunities(100)]
  /\ mpc' = "cycleCleanupPrices"
  /\ UNCHANGED <<now, last_insert_rowid, sqlite_sequence, ticks, schedulerVars, products, websites, price_history,
                 product_alerts, productAlertsTable, alert_history, outbox,
                 suppressed, attempts, route, spApiCredentials, spClient, appSettings, apiKey, alertHistoryTable, runResult,
                 oracleCalls, calls, loc, out>>

\* cleanupOldData, lines 193-199: DELETE FROM price_history WHERE
\* datetime(recorded_at) < datetime('now', '-90 days')
CycleCleanupPrices ==
  /\ mpc = "cycleCleanupPrices"
  /\ price_history' =
       SelectSeq(price_history,
            LAMBDA row : ~(row.recorded_at < now - PriceHistoryDays * OneDayHours))
  /\ mpc' = "cycleCleanupAlerts"
  /\ UNCHANGED <<now, last_insert_rowid, sqlite_sequence, ticks, schedulerVars, products, websites,
                 product_alerts, productAlertsTable, alert_history, outbox,
                 suppressed, attempts, route, spApiCredentials, spClient, appSettings, apiKey, alertHistoryTable, runResult,
                 oracleCalls, calls, batch, loc, out>>

\* cleanupOldData, lines 203-216: DELETE FROM alert_history WHERE
\* datetime(created_at) < datetime('now', '-30 days') (a missing table is
\* caught), and the return of runMonitoringCycle (lines 268-273)
CycleCleanupAlerts ==
  /\ mpc = "cycleCleanupAlerts"
  /\ alert_history' =
       SelectSeq(alert_history,
            LAMBDA row : ~(row.created_at < now - AlertHistoryDays * OneDayHours))
  /\ out' = [kind |-> "runMonitoringCycle",
             websitesChecked |-> Len(batch.websites),
             priceChanges |-> batch.priceChanges,
             stockChanges |-> batch.stockChanges,
             profitableOpportunities |-> batch.opportunities]
  /\ mpc' = "idle"
  /\ batch' = NoBatch
  /\ UNCHANGED <<now, last_insert_rowid, sqlite_sequence, ticks, schedulerVars, products, websites, price_history,
                 product_alerts, productAlertsTable, outbox, suppressed,
                 attempts, route, spApiCredentials, spClient, appSettings, apiKey, alertHistoryTable, runResult,
                 oracleCalls, calls, loc>>

RunMonitoringCycle ==
  \/ StartRunMonitoringCycle
  \/ CycleFind
  \/ CycleCleanupPrices
  \/ CycleCleanupAlerts

\* ------------------------------------------- the change detector on its own
\* the prices of the listings when they were crawled, and the prices then
\* observed, in cents; 19.19 observed on 20.20 is a change of 1.01 and of 5
\* percent, which the doubles of the code compute as 4.99999999999999
CrawledPrices == {200, 2000, 2020, 10000}
ObservedPrices == {0, 250, 1919, 2100, 10100}

\* the texts the crawler stored
CrawledStockTexts == {"In Stock", "Sold out"}

\* an id that no row has
MissingId == 9

\* one product with one listing, crawled at hour 0
MonitorInit ==
  /\ now = StartHour
  /\ ticks = 0
  /\ edits = 0
  /\ tableExists = FALSE
  /\ runsTableExists = FALSE
  /\ jobs = <<>>
  /\ runs = <<>>
  /\ pc = [w \in Invocations |-> "idle"]
  /\ call = [w \in Invocations |-> NoCall]
  /\ frame = [w \in Invocations |-> NoFrame]
  /\ ret = [w \in Invocations |-> NoRet]
  /\ products = <<ProductRow(NULL, NULL)>>
  /\ \E price \in CrawledPrices : \E stock \in CrawledStockTexts :
       /\ websites = <<WebsiteRow(1, price, stock, 0)>>
       /\ price_history = <<HistoryRow(1, price, stock, 0)>>
  /\ product_alerts = <<>>
  /\ productAlertsTable = FALSE
  /\ alert_history = <<>>
  /\ outbox = <<>>
  /\ suppressed = <<>>
  /\ attempts = <<>>
  /\ route = NoRoute
  /\ spApiCredentials = 1
  /\ spClient = "none"
  /\ appSettings = "key"
  /\ apiKey = NoApiKey
  /\ alertHistoryTable = FALSE
  /\ runResult = "meta"
  /\ last_insert_rowid = 0
  /\ sqlite_sequence = SequenceOf(price_history, alert_history)
  /\ oracleCalls = 0
  /\ calls = 0
  /\ mpc = "idle"
  /\ batch = NoBatch
  /\ loc = NoLoc
  /\ out = NoOut

MonitorNext ==
  \/ Advance
  \/ \E newPrice \in ObservedPrices : \E newStockStatus \in StockTexts :
       StartRecordPriceUpdate(1, newPrice, newStockStatus)
  \/ StartRecordPriceUpdate(MissingId, 0, "Sold out")
  \/ RecordPriceUpdate
  \/ RunMonitoringCycle

MonitorSpec == MonitorInit /\ [][MonitorNext]_vars
\* ------------------------------------------------- the task of a job
\* The task runJob awaits at lines 156-162: runMonitoringCycle of the
\* monitoring service for a monitoring_cycle job, cleanupOldData for a
\* data_cleanup job. pc "task" is the first statement the task awaits.
TaskPcs ==
  {"task", "taskRpuSelect", "taskRpuUpdate", "taskRpuInsert", "taskRpuTouch",
   "taskFind", "taskCleanupPrices", "taskCleanupAlerts"}

\* the statements of the task whose rejection makes the task throw: the
\* SELECT of getWebsitesToMonitor, the SELECT of
\* findProfitableOpportunities and the DELETE on price_history
TaskThrowingPcs == {"task", "taskFind", "taskCleanupPrices"}

\* what the task leaves alone: everything but the listings, the history
\* of prices and the log of mails
untouchedByTask ==
  <<products, product_alerts, productAlertsTable, outbox, suppressed,
    attempts, route, spApiCredentials, spClient, appSettings, apiKey,
    alertHistoryTable, runResult, oracleCalls, calls, mpc, batch, loc, out>>

\* the row the loop of runMonitoringCycle is at
TaskRow(w) == frame[w].task.rows[frame[w].task.idx]

\* monitoring-service.ts line 239: getWebsitesToMonitor, and the first call
\* of the loop
TaskGetWebsites(w) ==
  /\ pc[w] = "task"
  /\ frame[w].job_type = "monitoring_cycle"
  /\ \E rows \in WebsitesToMonitor(now) :
       /\ frame' = [frame EXCEPT ![w].task = [NoTask EXCEPT !.rows = rows,
                                                           !.idx = 1]]
       /\ pc' = [pc EXCEPT ![w] = IF rows = <<>> THEN "taskFind"
                                  ELSE "taskRpuSelect"]
  /\ UNCHANGED <<storeVars, now, last_insert_rowid, sqlite_sequence, ticks, edits, tableExists, runsTableExists,
                 jobs, runs, call, ret>>

\* What follows the end of a recordPriceUpdate call of the loop (lines
\* 255-260): a thrown error is logged, the counters are advanced after a
\* return, and the loop goes on to the next row or to
\* findProfitableOpportunities.
AfterTaskRpu(w, raised) ==
  LET t == frame[w].task
      u == [t EXCEPT
              !.priceChanges = IF ~raised /\ t.priceChanged THEN @ + 1 ELSE @,
              !.stockChanges = IF ~raised /\ t.stockChanged THEN @ + 1 ELSE @,
              !.idx = @ + 1]
  IN /\ frame' = [frame EXCEPT ![w].task = u]
     /\ pc' = [pc EXCEPT ![w] = IF u.idx > Len(u.rows) THEN "taskFind"
                                ELSE "taskRpuSelect"]

\* recordPriceUpdate, lines 63-84, called with the price and the stock
\* text that getWebsitesToMonitor selected
TaskRpuSelect(w) ==
  /\ pc[w] = "taskRpuSelect"
  /\ IF TaskRow(w).id \notin DOMAIN websites
       THEN AfterTaskRpu(w, TRUE)
       ELSE LET website == websites[TaskRow(w).id]
                priceChanged == PriceChanged(OldPrice(website), TaskRow(w).price)
                stockChanged == StockChanged(website.stock_status,
                                             TaskRow(w).stock_status)
            IN /\ frame' = [frame EXCEPT ![w].task.priceChanged = priceChanged,
                                         ![w].task.stockChanged = stockChanged]
               /\ pc' = [pc EXCEPT ![w] = IF priceChanged \/ stockChanged
                                            THEN "taskRpuUpdate"
                                            ELSE "taskRpuTouch"]
  /\ UNCHANGED <<storeVars, now, last_insert_rowid, sqlite_sequence, ticks, edits, tableExists, runsTableExists,
                 jobs, runs, call, ret>>

\* recordPriceUpdate, lines 86-93
TaskRpuUpdate(w) ==
  /\ pc[w] = "taskRpuUpdate"
  /\ websites' = [websites EXCEPT
                    ![TaskRow(w).id].price = TaskRow(w).price,
                    ![TaskRow(w).id].stock_status = TaskRow(w).stock_status,
                    ![TaskRow(w).id].last_checked = now]
  /\ pc' = [pc EXCEPT ![w] = "taskRpuInsert"]
  /\ UNCHANGED <<untouchedByTask, price_history, alert_history, now, last_insert_rowid, sqlite_sequence, ticks,
                 edits, tableExists, runsTableExists, jobs, runs, call, frame,
                 ret>>

\* recordPriceUpdate, lines 96-102, and its return
TaskRpuInsert(w) ==
  /\ pc[w] = "taskRpuInsert"
  /\ price_history' = Append(price_history,
                             HistoryRow(TaskRow(w).id, TaskRow(w).price,
                                        TaskRow(w).stock_status, now))
  /\ AfterTaskRpu(w, FALSE)
  /\ last_insert_rowid' = sqlite_sequence.price_history + 1
  /\ sqlite_sequence' = [sqlite_sequence EXCEPT !.price_history = @ + 1]
  /\ UNCHANGED <<untouchedByTask, websites, alert_history, now,  ticks, edits,
                 tableExists, runsTableExists, jobs, runs, call, ret>>

\* recordPriceUpdate, lines 105-108, and its return
TaskRpuTouch(w) ==
  /\ pc[w] = "taskRpuTouch"
  /\ websites' = [websites EXCEPT ![TaskRow(w).id].last_checked = now]
  /\ AfterTaskRpu(w, FALSE)
  /\ UNCHANGED <<untouchedByTask, price_history, alert_history, now, last_insert_rowid, sqlite_sequence, ticks,
                 edits, tableExists, runsTableExists, jobs, runs, call, ret>>

\* line 263: findProfitableOpportunities
TaskFind(w) ==
  /\ pc[w] = "taskFind"
  /\ frame' = [frame EXCEPT
                 ![w].task.opportunities = ProfitableOpportunities(100)]
  /\ pc' = [pc EXCEPT ![w] = "taskCleanupPrices"]
  /\ UNCHANGED <<storeVars, now, last_insert_rowid, sqlite_sequence, ticks, edits, tableExists, runsTableExists,
                 jobs, runs, call, ret>>

\* the rows a DELETE ... WHERE datetime(column) < datetime('now', '-N days')
\* leaves
KeptPriceHistory(t) ==
  SelectSeq(price_history,
            LAMBDA row : ~(row.recorded_at < t - PriceHistoryDays * OneDayHours))

KeptAlertHistory(t) ==
  SelectSeq(alert_history,
            LAMBDA row : ~(row.created_at < t - AlertHistoryDays * OneDayHours))

\* The shapes of what run() resolves with. The binding documents
\* {success, meta: {changes, last_row_id, ...}, results}; an earlier one
\* answered with changes beside success. The source declares run() as
\* Promise<any> (src/types.d.ts), so which of the two the program gets is
\* a property of the store it is deployed on.
RunResultShapes == {"meta", "legacy"}

\* what run() resolves with after a statement that changed n rows
RunAnswer(shape, n) ==
  IF shape = "legacy"
    THEN [success |-> TRUE, changes |-> n]
    ELSE [success |-> TRUE, meta |-> [changes |-> n]]

\* a value that `&&` and `||` take as true: not NULL and not 0
Truthy(x) == x # NULL /\ x # 0

\* result.changes || 0, lines 212 and 219
ChangesOrZero(result) ==
  IF "changes" \in DOMAIN result /\ Truthy(result.changes)
    THEN result.changes ELSE 0

\* cleanupOldData, lines 193-199: the DELETE on price_history, and the
\* count line 219 reads from its answer. It is the first statement of the
\* task of a data_cleanup job and follows findProfitableOpportunities in
\* runMonitoringCycle (line 266).
TaskCleanupPrices(w) ==
  /\ \/ pc[w] = "taskCleanupPrices"
     \/ pc[w] = "task" /\ frame[w].job_type = "data_cleanup"
  /\ price_history' = KeptPriceHistory(now)
  /\ frame' = [frame EXCEPT ![w].task.priceHistoryDeleted =
                              ChangesOrZero(
                                RunAnswer(runResult,
                                          Len(price_history)
                                            - Len(KeptPriceHistory(now))))]
  /\ pc' = [pc EXCEPT ![w] = "taskCleanupAlerts"]
  /\ UNCHANGED <<untouchedByTask, websites, alert_history, now, last_insert_rowid, sqlite_sequence, ticks, edits,
                 tableExists, runsTableExists, jobs, runs, call, ret>>

\* the value the task resolves with: lines 268-273 of runMonitoringCycle,
\* lines 218-221 of cleanupOldData
TaskResult(job_type, t, alertHistoryDeleted) ==
  IF job_type = "monitoring_cycle"
    THEN [kind |-> "runMonitoringCycle", websitesChecked |-> Len(t.rows),
          priceChanges |-> t.priceChanges, stockChanges |-> t.stockChanges,
          profitableOpportunities |-> t.opportunities]
    ELSE [kind |-> "cleanupOldData",
          priceHistoryDeleted |-> t.priceHistoryDeleted,
          alertHistoryDeleted |-> alertHistoryDeleted]

\* cleanupOldData, lines 203-216: the DELETE on alert_history, whose
\* rejection on a store without the table is caught, and the count line
\* 212 reads from its answer; the task then resolves
TaskCleanupAlerts(w) ==
  /\ pc[w] = "taskCleanupAlerts"
  /\ alert_history' = IF alertHistoryTable THEN KeptAlertHistory(now)
                      ELSE alert_history
  /\ frame' = [frame EXCEPT
                 ![w].result =
                    TaskResult(frame[w].job_type, frame[w].task,
                               IF alertHistoryTable
                                 THEN ChangesOrZero(
                                        RunAnswer(runResult,
                                                  Len(alert_history)
                                                    - Len(KeptAlertHistory(now))))
                                 ELSE 0),
                 ![w].task = NoTask]
  /\ pc' = [pc EXCEPT ![w] = "closeCompleted"]
  /\ UNCHANGED <<untouchedByTask, websites, price_history, now, last_insert_rowid, sqlite_sequence, ticks, edits,
                 tableExists, runsTableExists, jobs, runs, call, ret>>

\* the store rejects a statement of the task that no catch inside the task
\* handles: the task throws an Error with a message, or one whose message
\* is empty, into the catch at line 191
TaskThrows(w, outcome) ==
  /\ pc[w] \in TaskThrowingPcs
  /\ pc' = [pc EXCEPT ![w] = "closeFailed"]
  /\ frame' = [frame EXCEPT ![w].error = IF outcome = "throws"
                                           THEN "task failed" ELSE "",
                            ![w].task = NoTask]
  /\ UNCHANGED <<storeVars, now, last_insert_rowid, sqlite_sequence, ticks, edits, tableExists, runsTableExists,
                 jobs, runs, call, ret>>

\* a statement of the task never settles: runJob awaits it without a
\* timeout
TaskHangs(w) ==
  /\ pc[w] \in TaskThrowingPcs
  /\ pc' = [pc EXCEPT ![w] = "hung"]
  /\ UNCHANGED <<storeVars, now, last_insert_rowid, sqlite_sequence, ticks, edits, tableExists, runsTableExists,
                 jobs, runs, call, frame, ret>>

\* the statement the task awaits is answered by the store
TaskProceeds(w) ==
  /\ pc[w] \in TaskPcs
  /\ CASE pc[w] = "task" ->
            IF frame[w].job_type = "monitoring_cycle"
              THEN TaskGetWebsites(w) ELSE TaskCleanupPrices(w)
       [] pc[w] = "taskRpuSelect" -> TaskRpuSelect(w)
       [] pc[w] = "taskRpuUpdate" -> TaskRpuUpdate(w)
       [] pc[w] = "taskRpuInsert" -> TaskRpuInsert(w)
       [] pc[w] = "taskRpuTouch" -> TaskRpuTouch(w)
       [] pc[w] = "taskFind" -> TaskFind(w)
       [] pc[w] = "taskCleanupPrices" -> TaskCleanupPrices(w)
       [] pc[w] = "taskCleanupAlerts" -> TaskCleanupAlerts(w)

\* the steps of a task that settles
TaskSettles(w) ==
  \/ TaskProceeds(w)
  \/ \E outcome \in TaskRejections : TaskThrows(w, outcome)

\* -------------------------------------------------------- specifications
Bootstrap(w) ==
  \/ InitCheck(w)
  \/ CreateJobsTable(w)
  \/ CreateRunsTable(w)
  \/ InsertMonitoringJob(w)
  \/ InsertCleanupJob(w)

\* the steps of runJob whose task settles
RunJobSettles(w) ==
  \/ SelectJob(w)
  \/ InsertRun(w)
  \/ TaskSettles(w)
  \/ CloseCompleted(w)
  \/ RescheduleCompleted(w)
  \/ CloseFailed(w)
  \/ RescheduleFailed(w)

\* runJob, with a task that may never settle
RunJob(w) == RunJobSettles(w) \/ TaskHangs(w)

Operator ==
  \/ \E j \in 1..MaxJobs : \E status \in {"active", "paused"} : SetJobStatus(j, status)
  \/ InsertJob(UnboundJobType, MonitoringIntervalHours)

\* The cron route: the bootstrap, then processAllDueJobs. One invocation at
\* a time, on a store that accepts every statement.
Next ==
  \/ Tick
  \/ Operator
  \/ Bootstrap("a")
  \/ StartProcessAllDueJobs("a")
  \/ RunJob("a")

Spec == Init /\ [][Next]_vars

\* One invocation at a time, on a store that may reject statements.
FaultNext ==
  \/ Tick
  \/ Bootstrap("a")
  \/ StartProcessAllDueJobs("a")
  \/ RunJob("a")
  \/ StatementFails("a")

FaultSpec == Init /\ [][FaultNext]_vars

\* Two invocations of the cron route that overlap.
OverlapNext ==
  \/ Tick
  \/ \E w \in Invocations :
        Bootstrap(w) \/ StartProcessAllDueJobs(w) \/ RunJob(w)

OverlapSpec == Init /\ [][OverlapNext]_vars

\* The cron route is invoked again and again while the clock advances, and
\* every task settles.
FairNext ==
  \/ Tick
  \/ Bootstrap("a")
  \/ StartProcessAllDueJobs("a")
  \/ RunJobSettles("a")

FairSpec ==
  /\ Init
  /\ [][FairNext]_vars
  /\ WF_vars(Tick)
  /\ WF_vars(Bootstrap("a"))
  /\ WF_vars(StartProcessAllDueJobs("a"))
  /\ WF_vars(RunJobSettles("a"))


\* ------------------------------------------------ calculateProfitability
\* the fees are left out
ProfitWithoutFees(amazonPrice, sourcingPrice, fees) == amazonPrice - sourcingPrice

\* amazonPrice - sourcingPrice - fees (profitability-service.ts line 67,
\* amazon-sp-api-client.ts line 197)
Profit(amazonPrice, sourcingPrice, fees) == amazonPrice - sourcingPrice - fees

\* amazonPrice > 0 ? (profit / amazonPrice) * 100 : 0 (lines 68 and 200)
Margin(amazonPrice, profit) ==
  IF amazonPrice > 0 THEN Percent(profit, amazonPrice) ELSE Zero

\* margin >= minMarginPercent && profit >= minProfitAmount (lines 71-73 and
\* 203-205), margin and profit being the doubles of lines 67-68
IsProfitable(margin, profit) ==
  /\ DoubleGe(margin, DoubleOf(MinMarginPercent))
  /\ DoubleGe(profit, Amount(MinProfitAmount))

\* the verdict on the doubles of a marketplace price, a sourcing price and
\* fees
IsProfitableOn(numbers) == IsProfitable(numbers.margin, numbers.profit)

\* the locals of calculateProfitability at its call. via is "backfill" when
\* calculateProfitabilityForAllProducts made the call and "direct"
\* otherwise; cached tells which branch computed the result.
NewCalculateProfitability(productId, websiteId, via) ==
  [op |-> "calculateProfitability", productId |-> productId,
   websiteId |-> websiteId, via |-> via, cached |-> FALSE,
   sourcingPrice |-> NULL, amazonPrice |-> NULL, fees |-> NULL]

\* the value calculateProfitability returns (lines 75-85 and 97-107)
CalculateProfitabilityResult(l) ==
  LET profit == Profit(l.amazonPrice, l.sourcingPrice, l.fees)
      margin == Margin(l.amazonPrice, profit)
  IN [kind |-> "calculateProfitability", productId |-> l.productId,
      websiteId |-> l.websiteId, cached |-> l.cached,
      sourcingPrice |-> l.sourcingPrice, amazonPrice |-> l.amazonPrice,
      fees |-> l.fees, profit |-> profit, margin |-> margin,
      isProfitable |->
        IsProfitableOn(ProfitAndMargin(l.amazonPrice, l.sourcingPrice,
                                       l.fees))]

\* the locals of calculateProfitabilityForAllProducts; items holds the
\* website ids of the selected pairs. results is not a local of the code:
\* it keeps, for every pair the loop is done with, whether the call threw.
NewBackfill(items) ==
  [op |-> "backfill", items |-> items, idx |-> 1, profitable |-> 0,
   unprofitable |-> 0, results |-> <<>>]

\* lines 159-163
BackfillResult(b) ==
  [kind |-> "calculateProfitabilityForAllProducts",
   processed |-> Len(b.items), profitable |-> b.profitable,
   unprofitable |-> b.unprofitable, items |-> b.items, results |-> b.results]

\* an error of one pair ends the batch
AfterCalculateProfitabilityAborts(raised, msg, l) ==
  IF l.via = "direct" \/ raised
    THEN /\ mpc' = "idle"
         /\ out' = IF raised THEN RaisedOut(msg) ELSE CalculateProfitabilityResult(l)
         /\ loc' = NoLoc
         /\ batch' = NoBatch
    ELSE LET isProfitable == CalculateProfitabilityResult(l).isProfitable
             b == [batch EXCEPT
                     !.profitable = IF isProfitable THEN @ + 1 ELSE @,
                     !.unprofitable = IF isProfitable THEN @ ELSE @ + 1,
                     !.results = Append(@, [websiteId |-> l.websiteId,
                                            raised |-> raised]),
                     !.idx = @ + 1]
         IN IF b.idx > Len(b.items)
              THEN /\ mpc' = "idle"
                   /\ out' = BackfillResult(b)
                   /\ loc' = NoLoc
                   /\ batch' = NoBatch
              ELSE /\ mpc' = "cpProduct"
                   /\ loc' = NewCalculateProfitability(
                               websites[b.items[b.idx]].product_id,
                               b.items[b.idx], "backfill")
                   /\ batch' = b
                   /\ UNCHANGED out

\* What follows the end of a calculateProfitability call; l holds its
\* locals. A direct call ends the invocation. In
\* calculateProfitabilityForAllProducts (lines 144-163) a result is counted
\* as profitable or unprofitable, a thrown error is logged and counted as
\* unprofitable, and the loop calls calculateProfitability for the next
\* pair or returns the counts.
AfterCalculateProfitability(raised, msg, l) ==
  IF l.via = "direct"
    THEN /\ mpc' = "idle"
         /\ out' = IF raised THEN RaisedOut(msg) ELSE CalculateProfitabilityResult(l)
         /\ loc' = NoLoc
         /\ UNCHANGED batch
    ELSE LET isProfitable == ~raised /\ CalculateProfitabilityResult(l).isProfitable
             b == [batch EXCEPT
                     !.profitable = IF isProfitable THEN @ + 1 ELSE @,
                     !.unprofitable = IF isProfitable THEN @ ELSE @ + 1,
                     !.results = Append(@, [websiteId |-> l.websiteId,
                                            raised |-> raised]),
                     !.idx = @ + 1]
         IN IF b.idx > Len(b.items)
              THEN /\ mpc' = "idle"
                   /\ out' = BackfillResult(b)
                   /\ loc' = NoLoc
                   /\ batch' = NoBatch
              ELSE /\ mpc' = "cpProduct"
                   /\ loc' = NewCalculateProfitability(
                               websites[b.items[b.idx]].product_id,
                               b.items[b.idx], "backfill")
                   /\ batch' = b
                   /\ UNCHANGED out

\* calculateProfitability called as an entry point, on a service whose
\* pricing client is in the state client
CallCalculateProfitability(productId, websiteId, client) ==
  /\ mpc = "idle"
  /\ calls < MaxCalls
  /\ calls' = calls + 1
  /\ mpc' = "cpProduct"
  /\ loc' = NewCalculateProfitability(productId, websiteId, "direct")
  /\ out' = NoOut
  /\ spClient' = client
  /\ UNCHANGED <<now, last_insert_rowid, sqlite_sequence, ticks, schedulerVars, products, websites, price_history,
                 product_alerts, productAlertsTable, alert_history, outbox,
                 suppressed, attempts, route, spApiCredentials, appSettings, apiKey, alertHistoryTable, runResult,
                 oracleCalls, batch>>

\* profitability-service.ts lines 12-15 and 29: calculateProfitability
\* called on a new ProfitabilityService, whose client holds no credentials
\* (amazon-sp-api-client.ts lines 15-30)
StartCalculateProfitability(productId, websiteId) ==
  CallCalculateProfitability(productId, websiteId, "none")

\* calculateProfitability called on the service of the call before
StartCalculateProfitabilityAgain(productId, websiteId) ==
  CallCalculateProfitability(productId, websiteId, spClient)

\* lines 42-49: the SELECT of the product
CpSelectProduct ==
  /\ mpc = "cpProduct"
  /\ IF loc.productId \notin DOMAIN products
       THEN AfterCalculateProfitability(TRUE, "Product not found", loc)
       ELSE /\ mpc' = "cpWebsite"
            /\ loc' = [loc EXCEPT
                         !.amazonPrice = products[loc.productId].amazon_price,
                         !.fees = products[loc.productId].amazon_fees]
            /\ UNCHANGED <<batch, out>>
  /\ UNCHANGED <<now, last_insert_rowid, sqlite_sequence, ticks, schedulerVars, products, websites, price_history,
                 product_alerts, productAlertsTable, alert_history, outbox,
                 suppressed, attempts, route, spApiCredentials, spClient, appSettings, apiKey, alertHistoryTable, runResult,
                 oracleCalls, calls>>

\* lines 51-86: the SELECT of the listing; with a price and fees on the
\* product that `&&` takes as true the result is computed from them.
\* Otherwise calculateProfit calls getProductPricing, whose first await is
\* initialize() when the client was not created yet
\* (amazon-sp-api-client.ts lines 74-76).
CpSelectWebsite ==
  /\ mpc = "cpWebsite"
  /\ IF loc.websiteId \notin DOMAIN websites
       THEN AfterCalculateProfitability(TRUE, "Website not found", loc)
       ELSE LET l == [loc EXCEPT !.sourcingPrice = websites[loc.websiteId].price]
            IN IF Truthy(l.amazonPrice) /\ Truthy(l.fees)
                 THEN AfterCalculateProfitability(FALSE, NoText,
                                                  [l EXCEPT !.cached = TRUE])
                 ELSE /\ mpc' = IF spClient = "client" THEN "cpPricing"
                                                     ELSE "cpInitialize"
                      /\ loc' = l
                      /\ UNCHANGED <<batch, out>>
  /\ UNCHANGED <<now, last_insert_rowid, sqlite_sequence, ticks, schedulerVars, products, websites, price_history,
                 product_alerts, productAlertsTable, alert_history, outbox,
                 suppressed, attempts, route, spApiCredentials, spClient, appSettings, apiKey, alertHistoryTable, runResult,
                 oracleCalls, calls>>

\* what the pricing oracle answers: an error, or an amount in cents; a
\* listing price that is missing or 0 reads as 0 (Amount || 0)
OraclePrices == {0, 2000, 10000}
OracleFees == {0, 300, 1500}
OracleAnswers(amounts) ==
  {[ok |-> TRUE, amount |-> a] : a \in amounts} \cup {[ok |-> FALSE, amount |-> 0]}

\* amazon-sp-api-client.ts lines 34-65: initialize() reads the credentials
\* with SELECT * FROM sp_api_credentials LIMIT 1 unless the client holds
\* them (line 37); the store rejects the SELECT when the table was never
\* created (only storeCredentials creates it) and the error is rethrown up
\* to calculateProfitability; otherwise the client is created
CpInitialize ==
  /\ mpc = "cpInitialize"
  /\ IF spClient = "none" /\ spApiCredentials = NoTable
       THEN /\ AfterCalculateProfitability(TRUE,
                  "no such table: sp_api_credentials", loc)
            /\ UNCHANGED spClient
       ELSE /\ spClient' = "client"
            /\ mpc' = "cpPricing"
            /\ UNCHANGED <<loc, batch, out>>
  /\ UNCHANGED <<now, last_insert_rowid, sqlite_sequence, ticks, schedulerVars, products, websites, price_history,
                 product_alerts, productAlertsTable, alert_history, outbox,
                 suppressed, attempts, route, spApiCredentials,
                 appSettings, apiKey, alertHistoryTable, runResult, oracleCalls, calls>>

\* calculateProfit, lines 177-188: the request getPricing of
\* getProductPricing
CpGetProductPricing(answer) ==
  /\ mpc = "cpPricing"
  /\ oracleCalls' = oracleCalls + 1
  /\ IF ~answer.ok
       THEN AfterCalculateProfitability(TRUE, "oracle error", loc)
       ELSE IF answer.amount = 0
         THEN AfterCalculateProfitability(TRUE, "No valid price found", loc)
         ELSE /\ mpc' = "cpFees"
              /\ loc' = [loc EXCEPT !.amazonPrice = answer.amount]
              /\ UNCHANGED <<batch, out>>
  /\ UNCHANGED <<now, last_insert_rowid, sqlite_sequence, ticks, schedulerVars, products, websites, price_history,
                 product_alerts, productAlertsTable, alert_history, outbox,
                 suppressed, attempts, route, spApiCredentials, spClient, appSettings, apiKey, alertHistoryTable, runResult,
                 calls>>

\* calculateProfit, lines 191-205: getFeesEstimate; missing fees read as 0
CpGetFeesEstimate(answer) ==
  /\ mpc = "cpFees"
  /\ oracleCalls' = oracleCalls + 1
  /\ IF ~answer.ok
       THEN AfterCalculateProfitability(TRUE, "oracle error", loc)
       ELSE /\ mpc' = "cpUpdate"
            /\ loc' = [loc EXCEPT !.fees = answer.amount]
            /\ UNCHANGED <<batch, out>>
  /\ UNCHANGED <<now, last_insert_rowid, sqlite_sequence, ticks, schedulerVars, products, websites, price_history,
                 product_alerts, productAlertsTable, alert_history, outbox,
                 suppressed, attempts, route, spApiCredentials, spClient, appSettings, apiKey, alertHistoryTable, runResult,
                 calls>>

\* lines 92-107: UPDATE products SET amazon_price, amazon_fees, and the
\* return
CpUpdate ==
  /\ mpc = "cpUpdate"
  /\ products' = [products EXCEPT ![loc.productId].amazon_price = loc.amazonPrice,
                                  ![loc.productId].amazon_fees = loc.fees,
                                  ![loc.productId].filled = TRUE]
  /\ AfterCalculateProfitability(FALSE, NoText, loc)
  /\ UNCHANGED <<now, last_insert_rowid, sqlite_sequence, ticks, schedulerVars, websites, price_history,
                 product_alerts, productAlertsTable, alert_history, outbox,
                 suppressed, attempts, route, spApiCredentials, spClient, appSettings, apiKey, alertHistoryTable, runResult,
                 oracleCalls, calls>>

CalculateProfitability ==
  \/ CpSelectProduct
  \/ CpSelectWebsite
  \/ CpInitialize
  \/ \E answer \in OracleAnswers(OraclePrices) : CpGetProductPricing(answer)
  \/ \E answer \in OracleAnswers(OracleFees) : CpGetFeesEstimate(answer)
  \/ CpUpdate

\* ---------------------------------- calculateProfitabilityForAllProducts
\* lines 125-134: the listings of products without a price or without
\* fees, in any order (the query has no ORDER BY), cut at the limit
PairsToCalculate(limit) ==
  LET pairs == {i \in DOMAIN websites :
                  /\ Joined(i)
                  /\ \/ products[websites[i].product_id].amazon_price = NULL
                     \/ products[websites[i].product_id].amazon_fees = NULL}
  IN Orderings(pairs, [i \in pairs |-> 0], limit)

\* lines 125-146: the SELECT, the return when it is empty, and the first
\* call of the loop
StartBackfill ==
  /\ mpc = "idle"
  /\ calls < MaxCalls
  /\ calls' = calls + 1
  /\ \E items \in PairsToCalculate(BackfillLimit) :
       IF items = <<>>
         THEN /\ out' = BackfillResult([NewBackfill(items) EXCEPT !.idx = 0])
              /\ UNCHANGED <<mpc, batch, loc>>
         ELSE /\ out' = NoOut
              /\ mpc' = "cpProduct"
              /\ batch' = NewBackfill(items)
              /\ loc' = NewCalculateProfitability(websites[items[1]].product_id,
                                                  items[1], "backfill")
  /\ spClient' = "none"
  /\ UNCHANGED <<now, last_insert_rowid, sqlite_sequence, ticks, schedulerVars, products, websites, price_history,
                 product_alerts, productAlertsTable, alert_history, outbox,
                 suppressed, attempts, route, spApiCredentials, appSettings, apiKey, alertHistoryTable, runResult,
                 oracleCalls>>

\* -------------------------------------------------------- storeCredentials
\* profitability-service.ts lines 223-229: storeCredentials called on a
\* new ProfitabilityService
StartStoreCredentials ==
  /\ mpc = "idle"
  /\ calls < MaxCalls
  /\ calls' = calls + 1
  /\ mpc' = "scProbe"
  /\ loc' = [op |-> "storeCredentials"]
  /\ out' = NoOut
  /\ spClient' = "none"
  /\ UNCHANGED <<now, last_insert_rowid, sqlite_sequence, ticks, schedulerVars, products, websites, price_history,
                 product_alerts, productAlertsTable, alert_history, outbox,
                 suppressed, attempts, route, spApiCredentials, appSettings, apiKey, alertHistoryTable, runResult,
                 oracleCalls, batch>>

\* storeCredentials returns or throws (amazon-sp-api-client.ts lines
\* 290-297); the client holds the credentials from line 291 on
AfterStoreCredentials(raised, msg) ==
  /\ mpc' = "idle"
  /\ loc' = NoLoc
  /\ out' = IF raised THEN RaisedOut(msg) ELSE [kind |-> "storeCredentials"]
  /\ spClient' = IF raised \/ spClient = "client" THEN spClient
                 ELSE "credentials"

\* amazon-sp-api-client.ts lines 237-239: the probe of sqlite_master for
\* the table sp_api_credentials
ScProbe ==
  /\ mpc = "scProbe"
  /\ mpc' = IF spApiCredentials = NoTable THEN "scCreate" ELSE "scSelect"
  /\ UNCHANGED <<now, last_insert_rowid, sqlite_sequence, ticks, schedulerVars, products, websites, price_history,
                 product_alerts, productAlertsTable, alert_history, outbox,
                 suppressed, attempts, route, spApiCredentials, appSettings, apiKey, alertHistoryTable, runResult,
                 oracleCalls, batch, calls, spClient, loc, out>>

\* lines 241-253: CREATE TABLE sp_api_credentials; when another call has
\* created the table since the probe the statement raises
ScCreate ==
  /\ mpc = "scCreate"
  /\ IF spApiCredentials = NoTable
       THEN /\ spApiCredentials' = 0
            /\ mpc' = "scSelect"
            /\ UNCHANGED <<spClient, loc, out>>
       ELSE /\ AfterStoreCredentials(
                  TRUE, "table sp_api_credentials already exists")
            /\ UNCHANGED spApiCredentials
  /\ UNCHANGED <<now, last_insert_rowid, sqlite_sequence, ticks, schedulerVars, products, websites, price_history,
                 product_alerts, productAlertsTable, alert_history, outbox,
                 suppressed, attempts, route, appSettings, apiKey, alertHistoryTable, runResult,
                 oracleCalls, batch, calls>>

\* lines 256-258: SELECT id FROM sp_api_credentials LIMIT 1
ScSelect ==
  /\ mpc = "scSelect"
  /\ mpc' = IF spApiCredentials > 0 THEN "scUpdate" ELSE "scInsert"
  /\ UNCHANGED <<now, last_insert_rowid, sqlite_sequence, ticks, schedulerVars, products, websites, price_history,
                 product_alerts, productAlertsTable, alert_history, outbox,
                 suppressed, attempts, route, spApiCredentials, appSettings, apiKey, alertHistoryTable, runResult,
                 oracleCalls, batch, calls, spClient, loc, out>>

\* lines 262-274: UPDATE sp_api_credentials of the row found (the model
\* keeps no column of it), and the return
ScUpdate ==
  /\ mpc = "scUpdate"
  /\ AfterStoreCredentials(FALSE, NoText)
  /\ UNCHANGED <<now, last_insert_rowid, sqlite_sequence, ticks, schedulerVars, products, websites, price_history,
                 product_alerts, productAlertsTable, alert_history, outbox,
                 suppressed, attempts, route, spApiCredentials, appSettings, apiKey, alertHistoryTable, runResult,
                 oracleCalls, batch, calls>>

\* lines 277-288: INSERT INTO sp_api_credentials, and the return
ScInsert ==
  /\ mpc = "scInsert"
  /\ spApiCredentials' = spApiCredentials + 1
  /\ last_insert_rowid' = spApiCredentials + 1
  /\ AfterStoreCredentials(FALSE, NoText)
  /\ UNCHANGED <<now, sqlite_sequence, ticks, schedulerVars, products, websites, price_history,
                 product_alerts, productAlertsTable, alert_history, outbox,
                 suppressed, attempts, route, appSettings, apiKey, alertHistoryTable, runResult,
                 oracleCalls, batch, calls>>

StoreCredentials == ScProbe \/ ScCreate \/ ScSelect \/ ScUpdate \/ ScInsert

\* --------------------------------------- the profitability engine on its own
\* two products: the first with two listings, at 12.00 and at 13.00 or
\* 31.34, the second with one listing, at 70.00 or 80.00; the first product
\* has no price yet, or the price 20.00 or 40.40 and the fees 3.00 (at
\* 40.40, 31.34 and 3.00 the margin is 15 percent in exact arithmetic and
\* 14.999999999999996 in the doubles of the code); the credentials of
\* the pricing oracle were stored or the table was never created
ProfitInit ==
  /\ now = StartHour
  /\ ticks = 0
  /\ edits = 0
  /\ tableExists = FALSE
  /\ runsTableExists = FALSE
  /\ jobs = <<>>
  /\ runs = <<>>
  /\ pc = [w \in Invocations |-> "idle"]
  /\ call = [w \in Invocations |-> NoCall]
  /\ frame = [w \in Invocations |-> NoFrame]
  /\ ret = [w \in Invocations |-> NoRet]
  /\ \E first \in {ProductRow(NULL, NULL), ProductRow(2000, 300),
                   ProductRow(4040, 300)} :
       products = <<first, ProductRow(NULL, NULL)>>
  /\ \E second \in {1300, 3134} : \E price \in {7000, 8000} :
       websites = <<WebsiteRow(1, 1200, "In Stock", 0),
                    WebsiteRow(1, second, "In Stock", 0),
                    WebsiteRow(2, price, "In Stock", 0)>>
  /\ price_history = [i \in 1..3 |-> HistoryRow(i, websites[i].price, "In Stock", 0)]
  /\ product_alerts = <<>>
  /\ productAlertsTable = FALSE
  /\ alert_history = <<>>
  /\ outbox = <<>>
  /\ suppressed = <<>>
  /\ attempts = <<>>
  /\ route = NoRoute
  /\ spApiCredentials \in {NoTable, 1}
  /\ spClient = "none"
  /\ appSettings = "key"
  /\ apiKey = NoApiKey
  /\ alertHistoryTable = FALSE
  /\ runResult = "meta"
  /\ last_insert_rowid = 0
  /\ sqlite_sequence = SequenceOf(price_history, alert_history)
  /\ oracleCalls = 0
  /\ calls = 0
  /\ mpc = "idle"
  /\ batch = NoBatch
  /\ loc = NoLoc
  /\ out = NoOut

ProfitNext ==
  \/ \E productId \in 1..2 : \E websiteId \in 1..3 :
       StartCalculateProfitability(productId, websiteId)
  \/ \E productId \in {1, MissingId} : \E websiteId \in {1, MissingId} :
       StartCalculateProfitability(productId, websiteId)
  \/ StartBackfill
  \/ CalculateProfitability
  \/ StartCalculateProfitabilityAgain(1, 1)
  \/ StartStoreCredentials
  \/ StoreCredentials

ProfitSpec == ProfitInit /\ [][ProfitNext]_vars

\* -------------------------------------------------- the alert dispatcher
\* number of calls of the alert dispatcher's entry points in one behaviour
MaxAlertCalls == 3
\* alert-config.ts line 42
MaxOpportunitiesPerEmail == 10

\* the look-back includes the record that is exactly the window old
WasAlertRecentlySentInclusive(productId, t) ==
  /\ productAlertsTable
  /\ \E i \in DOMAIN product_alerts :
       /\ product_alerts[i].product_id = productId
       /\ product_alerts[i].created_at >= t - MinTimeBetweenAlerts

\* wasAlertRecentlySent (crawler-config.ts lines 307-349): FALSE when the
\* table is missing, else whether a row of the product has
\* datetime(created_at) > datetime('now', '-24 hours')
WasAlertRecentlySent(productId, t) ==
  /\ productAlertsTable
  /\ \E i \in DOMAIN product_alerts :
       /\ product_alerts[i].product_id = productId
       /\ product_alerts[i].created_at > t - MinTimeBetweenAlerts

\* the locals of sendProfitableOpportunityAlert at its call. via is "all"
\* when sendAllProfitableOpportunityAlerts made the call and "direct"
\* otherwise. recent, checkedAt, records, mails, profitable and transport
\* are not locals of the code: they keep what wasAlertRecentlySent
\* answered, the clock and the numbers of rows of product_alerts and of
\* accepted messages at that time, whether the pair passed the thresholds,
\* and what became of the message: "none" while sendEmail was not called,
\* "noKey" when sendEmail found no API key, "failed" when the transport
\* refused the message and "accepted" when it took it.
NewSendAlert(productId, websiteId, via) ==
  [op |-> "sendProfitableOpportunityAlert", productId |-> productId,
   websiteId |-> websiteId, via |-> via, recent |-> FALSE,
   checkedAt |-> NULL, records |-> 0, mails |-> 0, profitable |-> FALSE,
   transport |-> "none"]

\* the value sendProfitableOpportunityAlert returns, with its locals
SendAlertResult(l, success) ==
  [kind |-> "sendProfitableOpportunityAlert", success |-> success,
   productId |-> l.productId, websiteId |-> l.websiteId,
   recent |-> l.recent, checkedAt |-> l.checkedAt, records |-> l.records,
   mails |-> l.mails, profitable |-> l.profitable, transport |-> l.transport]

\* the locals of sendAllProfitableOpportunityAlerts; items holds the
\* selected pairs. skipped is not a local of the code: it counts the pairs
\* the loop passed over with `continue`.
NewSendAll(items) ==
  [op |-> "sendAll", items |-> items, idx |-> 1, sent |-> 0, failed |-> 0,
   skipped |-> 0]

\* alert-service.ts line 165
SendAllResult(b) ==
  [kind |-> "sendAllProfitableOpportunityAlerts", sent |-> b.sent,
   failed |-> b.failed, skipped |-> b.skipped]

\* the loop of sendAllProfitableOpportunityAlerts goes on with the pair at
\* b.idx (lines 146-151), or the call returns (line 165)
SendAllGoesOn(b) ==
  IF b.idx > Len(b.items)
    THEN /\ mpc' = "idle"
         /\ out' = SendAllResult(b)
         /\ batch' = NoBatch
         /\ loc' = NoLoc
    ELSE /\ mpc' = "allRecent"
         /\ batch' = b
         /\ loc' = NoLoc
         /\ UNCHANGED out

\* What follows the end of a sendProfitableOpportunityAlert call; l holds
\* its locals. A direct call ends the invocation; in
\* sendAllProfitableOpportunityAlerts the result is counted as sent or
\* failed (lines 158-162).
AfterSendAlert(success, l) ==
  IF l.via = "direct"
    THEN /\ mpc' = "idle"
         /\ out' = SendAlertResult(l, success)
         /\ loc' = NoLoc
         /\ UNCHANGED batch
    ELSE SendAllGoesOn([batch EXCEPT !.sent = IF success THEN @ + 1 ELSE @,
                                     !.failed = IF success THEN @ ELSE @ + 1,
                                     !.idx = @ + 1])


\* the locals of sendDailySummaryEmail when it calls sendEmail; the
\* message names no product
NewSummary ==
  [NewSendAlert(NULL, NULL, "direct") EXCEPT !.op = "sendDailySummaryEmail"]

\* the value sendDailySummaryEmail returns
SummaryResult(success, transport) ==
  [kind |-> "sendDailySummaryEmail", success |-> success,
   transport |-> transport]

\* the await an alert call is at, and its locals
AlertAt(w) == IF w = Service THEN mpc ELSE pc[w]
AlertLocals(w) == IF w = Service THEN loc ELSE frame[w]

\* an alert call goes on to its next await with the locals l
Goto(w, at, l) ==
  IF w = Service
    THEN /\ mpc' = at
         /\ loc' = l
         /\ UNCHANGED <<batch, out, pc, frame, ret>>
    ELSE /\ pc' = [pc EXCEPT ![w] = at]
         /\ frame' = [frame EXCEPT ![w] = l]
         /\ UNCHANGED <<ret, mpc, loc, batch, out>>

\* sendProfitableOpportunityAlert returns (lines 94-98)
AlertReturns(w, success, l) ==
  IF w = Service
    THEN /\ AfterSendAlert(success, l)
         /\ UNCHANGED <<pc, frame, ret>>
    ELSE /\ pc' = [pc EXCEPT ![w] = "idle"]
         /\ frame' = [frame EXCEPT ![w] = NoFrame]
         /\ ret' = [ret EXCEPT ![w] = SendAlertResult(l, success)]
         /\ UNCHANGED <<mpc, loc, batch, out>>

\* what no step of an alert call writes
untouchedByAlerts ==
  <<now, ticks, edits, tableExists, runsTableExists, jobs, runs, call,
    products, websites, price_history, route, spApiCredentials,
    spClient, appSettings, oracleCalls>>

\* sendProfitableOpportunityAlert called as an entry point, on an
\* AlertService whose mail service holds the API key or not
CallSendAlert(productId, websiteId, key) ==
  /\ mpc = "idle"
  /\ calls < MaxAlertCalls
  /\ calls' = calls + 1
  /\ mpc' = "saRecent"
  /\ loc' = NewSendAlert(productId, websiteId, "direct")
  /\ out' = NoOut
  /\ apiKey' = [apiKey EXCEPT ![Service] = key]
  /\ UNCHANGED <<untouchedByAlerts, last_insert_rowid, sqlite_sequence, pc, frame, ret, product_alerts,
                 productAlertsTable, alert_history, alertHistoryTable, runResult, outbox,
                 suppressed, attempts, batch>>

\* alert-service.ts lines 12-15 and 29: the call is made on a new
\* AlertService, whose mail service holds no API key
StartSendAlert(productId, websiteId) ==
  CallSendAlert(productId, websiteId, FALSE)

\* the call is made on the service of the call before
StartSendAlertAgain(productId, websiteId) ==
  CallSendAlert(productId, websiteId, apiKey[Service])

\* ------------------------------------------------- wasAlertRecentlySent
\* the product wasAlertRecentlySent is asked about: the one of the pair
\* the loop of sendAllProfitableOpportunityAlerts is at (line 148), or the
\* one of the sendProfitableOpportunityAlert call (line 37)
AskedProduct(w) ==
  IF AlertAt(w) \in {"allRecent", "allRecentCreate", "allRecentSelect"}
    THEN websites[batch.items[batch.idx]].product_id
    ELSE AlertLocals(w).productId

\* crawler-config.ts lines 309-312: the probe of sqlite_master for the
\* table product_alerts
SaRecent(w) ==
  /\ AlertAt(w) \in {"saRecent", "allRecent"}
  /\ Goto(w, IF AlertAt(w) = "saRecent"
               THEN (IF productAlertsTable THEN "saRecentSelect"
                                           ELSE "saRecentCreate")
               ELSE (IF productAlertsTable THEN "allRecentSelect"
                                           ELSE "allRecentCreate"),
          AlertLocals(w))
  /\ UNCHANGED <<untouchedByAlerts, last_insert_rowid, sqlite_sequence, calls, product_alerts, productAlertsTable,
                 alert_history, alertHistoryTable, runResult, outbox, suppressed,
                 attempts, apiKey>>

\* What follows the answer of wasAlertRecentlySent. In the loop of
\* sendAllProfitableOpportunityAlerts (lines 147-156) a product alerted
\* recently is passed over and for another one
\* sendProfitableOpportunityAlert is called; in
\* sendProfitableOpportunityAlert (lines 36-40) the call returns false or
\* goes on to the SELECT of the pair.
AfterRecent(w, recent) ==
  IF AlertAt(w) \in {"allRecentCreate", "allRecentSelect"}
    THEN /\ IF recent
              THEN /\ suppressed' = Append(suppressed,
                                           [product_id |-> AskedProduct(w),
                                            at |-> now])
                   /\ SendAllGoesOn([batch EXCEPT !.skipped = @ + 1,
                                                  !.idx = @ + 1])
              ELSE /\ mpc' = "saRecent"
                   /\ loc' = NewSendAlert(AskedProduct(w),
                                          batch.items[batch.idx], "all")
                   /\ UNCHANGED <<suppressed, batch, out>>
         /\ UNCHANGED <<pc, frame, ret>>
    ELSE LET l == [AlertLocals(w) EXCEPT !.recent = recent,
                                         !.checkedAt = now,
                                         !.records = Len(product_alerts),
                                         !.mails = Len(outbox)]
         IN IF recent
              THEN /\ suppressed' = Append(suppressed,
                                           [product_id |-> l.productId,
                                            at |-> now])
                   /\ AlertReturns(w, FALSE, l)
              ELSE /\ Goto(w, "saSelect", l)
                   /\ UNCHANGED suppressed

\* lines 314-333: CREATE TABLE product_alerts, and the answer false; when
\* another call has created the table since the probe the statement
\* raises, and line 345 answers false as well
SaRecentCreate(w) ==
  /\ AlertAt(w) \in {"saRecentCreate", "allRecentCreate"}
  /\ productAlertsTable' = TRUE
  /\ AfterRecent(w, FALSE)
  /\ UNCHANGED <<untouchedByAlerts, last_insert_rowid, sqlite_sequence, calls, product_alerts, alert_history,
                 alertHistoryTable, runResult, outbox, attempts, apiKey>>

\* lines 335-343: the SELECT of the rows of the product of the last 24
\* hours
SaRecentSelect(w) ==
  /\ AlertAt(w) \in {"saRecentSelect", "allRecentSelect"}
  /\ AfterRecent(w, WasAlertRecentlySent(AskedProduct(w), now))
  /\ UNCHANGED <<untouchedByAlerts, last_insert_rowid, sqlite_sequence, calls, product_alerts, productAlertsTable,
                 alert_history, alertHistoryTable, runResult, outbox, attempts, apiKey>>

\* alert-service.ts lines 43-76: the SELECT of the pair (a missing pair
\* throws, which line 95 turns into false) and the thresholds; a NULL
\* margin or profit compares as 0 and is below the thresholds. Lines
\* 83-87 call sendEmail, which reads the API key unless the service holds
\* it (crawler-config.ts line 233).
SaSelect(w) ==
  /\ AlertAt(w) = "saSelect"
  /\ LET l == AlertLocals(w)
         found == /\ l.productId \in DOMAIN products
                  /\ l.websiteId \in DOMAIN websites
                  /\ websites[l.websiteId].product_id = l.productId
         profitable == /\ found
                       /\ SqlProfitable(products[l.productId],
                                        websites[l.websiteId],
                                        AlertMinMarginPercent,
                                        AlertMinProfitAmount)
     IN IF profitable
          THEN Goto(w, IF apiKey[w] THEN "saSend" ELSE "saKey",
                    [l EXCEPT !.profitable = TRUE])
          ELSE AlertReturns(w, FALSE, l)
  /\ UNCHANGED <<untouchedByAlerts, last_insert_rowid, sqlite_sequence, calls, product_alerts, productAlertsTable,
                 alert_history, alertHistoryTable, runResult, outbox, suppressed,
                 attempts, apiKey>>

\* ------------------------------------------------------------ sendEmail
\* sendEmail returns to its caller: sendDailySummaryEmail returns its
\* answer (alert-service.ts lines 225-229), and
\* sendProfitableOpportunityAlert goes on to recordProductAlert when the
\* answer is true and returns false otherwise (lines 89-98)
SendEmailReturns(w, success, l) ==
  IF l.op = "sendDailySummaryEmail"
    THEN /\ mpc' = "idle"
         /\ loc' = NoLoc
         /\ out' = SummaryResult(success, l.transport)
         /\ UNCHANGED <<batch, pc, frame, ret>>
    ELSE IF success THEN Goto(w, "saRecord", l)
                    ELSE AlertReturns(w, FALSE, l)

\* crawler-config.ts lines 233-239, EmailService.initialize (lines
\* 147-165): the SELECT of the API key in app_settings. Without the table
\* the SELECT raises and without the row line 237 throws; line 257 turns
\* both into false, and no request is made to the transport.
SaKey(w) ==
  /\ AlertAt(w) = "saKey"
  /\ IF appSettings = "key"
       THEN /\ apiKey' = [apiKey EXCEPT ![w] = TRUE]
            /\ Goto(w, "saSend", AlertLocals(w))
       ELSE /\ SendEmailReturns(w, FALSE,
                                [AlertLocals(w) EXCEPT !.transport = "noKey"])
            /\ UNCHANGED apiKey
  /\ UNCHANGED <<untouchedByAlerts, last_insert_rowid, sqlite_sequence, calls, product_alerts, productAlertsTable,
                 alert_history, alertHistoryTable, runResult, outbox, suppressed,
                 attempts>>

\* the request made to the transport
Attempt(l, t, accepted) ==
  [product_id |-> l.productId, website_id |-> l.websiteId, at |-> t,
   call |-> calls, accepted |-> accepted]

\* a message the transport refused is recorded as sent all the same
SaSendAlwaysRecords(w, accepted) ==
  /\ AlertAt(w) = "saSend"
  /\ attempts' = Append(attempts, Attempt(AlertLocals(w), now, accepted))
  /\ IF accepted
       THEN /\ outbox' = Append(outbox, [product_id |-> AlertLocals(w).productId,
                                         at |-> now])
            /\ Goto(w, "saLogProbe",
                    [AlertLocals(w) EXCEPT !.transport = "accepted"])
       ELSE /\ Goto(w, "saRecord",
                    [AlertLocals(w) EXCEPT !.transport = "failed"])
            /\ UNCHANGED outbox
  /\ UNCHANGED <<untouchedByAlerts, last_insert_rowid, sqlite_sequence, calls, product_alerts, productAlertsTable,
                 alert_history, alertHistoryTable, runResult, suppressed, apiKey>>

\* a message the transport refused is handed to it once more at once
SaSendRetries(w, accepted) ==
  /\ AlertAt(w) = "saSend"
  /\ attempts' = Append(attempts, Attempt(AlertLocals(w), now, accepted))
  /\ IF accepted
       THEN /\ outbox' = Append(outbox, [product_id |-> AlertLocals(w).productId,
                                         at |-> now])
            /\ Goto(w, "saLogProbe",
                    [AlertLocals(w) EXCEPT !.transport = "accepted"])
       ELSE /\ IF AlertLocals(w).transport = "none"
                 THEN Goto(w, "saSend",
                           [AlertLocals(w) EXCEPT !.transport = "failed"])
                 ELSE SendEmailReturns(w, FALSE, AlertLocals(w))
            /\ UNCHANGED outbox
  /\ UNCHANGED <<untouchedByAlerts, last_insert_rowid, sqlite_sequence, calls, product_alerts, productAlertsTable,
                 alert_history, alertHistoryTable, runResult, suppressed, apiKey>>

\* crawler-config.ts line 252, sgMail.send: the transport accepts the
\* message, or it refuses it and line 257 returns false
SaSend(w, accepted) ==
  /\ AlertAt(w) = "saSend"
  /\ attempts' = Append(attempts, Attempt(AlertLocals(w), now, accepted))
  /\ IF accepted
       THEN /\ outbox' = Append(outbox, [product_id |-> AlertLocals(w).productId,
                                         at |-> now])
            /\ Goto(w, "saLogProbe",
                    [AlertLocals(w) EXCEPT !.transport = "accepted"])
       ELSE /\ SendEmailReturns(w, FALSE,
                                [AlertLocals(w) EXCEPT !.transport = "failed"])
            /\ UNCHANGED outbox
  /\ UNCHANGED <<untouchedByAlerts, last_insert_rowid, sqlite_sequence, calls, product_alerts, productAlertsTable,
                 alert_history, alertHistoryTable, runResult, suppressed, apiKey>>

\* recordEmailAlert, crawler-config.ts lines 271-274: the probe of
\* sqlite_master for the table alert_history
SaLogProbe(w) ==
  /\ AlertAt(w) = "saLogProbe"
  /\ Goto(w, IF alertHistoryTable THEN "saLogInsert" ELSE "saLogCreate",
          AlertLocals(w))
  /\ UNCHANGED <<untouchedByAlerts, last_insert_rowid, sqlite_sequence, calls, product_alerts, productAlertsTable,
                 alert_history, alertHistoryTable, runResult, outbox, suppressed,
                 attempts, apiKey>>

\* lines 276-289: CREATE TABLE alert_history. When another call has
\* created the table since the probe the statement raises, line 297
\* swallows the error, the INSERT is left out and sendEmail returns true.
SaLogCreate(w) ==
  /\ AlertAt(w) = "saLogCreate"
  /\ IF alertHistoryTable
       THEN /\ SendEmailReturns(w, TRUE, AlertLocals(w))
            /\ UNCHANGED alertHistoryTable
       ELSE /\ alertHistoryTable' = TRUE
            /\ Goto(w, "saLogInsert", AlertLocals(w))
  /\ UNCHANGED <<untouchedByAlerts, last_insert_rowid, sqlite_sequence, calls, product_alerts, productAlertsTable,
                 alert_history, runResult, outbox, suppressed, attempts, apiKey>>

\* lines 291-296: INSERT INTO alert_history, and sendEmail returns true
\* (line 255)
SaLogInsert(w) ==
  /\ AlertAt(w) = "saLogInsert"
  /\ alert_history' = Append(alert_history,
                             AlertHistoryRow(AlertLocals(w).productId, now))
  /\ SendEmailReturns(w, TRUE, AlertLocals(w))
  /\ last_insert_rowid' = sqlite_sequence.alert_history + 1
  /\ sqlite_sequence' = [sqlite_sequence EXCEPT !.alert_history = @ + 1]
  /\ UNCHANGED <<untouchedByAlerts,  calls, product_alerts, productAlertsTable,
                 alertHistoryTable, runResult, outbox, suppressed, attempts, apiKey>>

\* --------------------------------------------------- recordProductAlert
\* crawler-config.ts lines 358-361: the probe of sqlite_master for the
\* table product_alerts
SaRecordProbe(w) ==
  /\ AlertAt(w) = "saRecord"
  /\ Goto(w, IF productAlertsTable THEN "saRecordInsert"
                                   ELSE "saRecordCreate", AlertLocals(w))
  /\ UNCHANGED <<untouchedByAlerts, last_insert_rowid, sqlite_sequence, calls, product_alerts, productAlertsTable,
                 alert_history, alertHistoryTable, runResult, outbox, suppressed,
                 attempts, apiKey>>

\* lines 363-377: CREATE TABLE product_alerts. When another call has
\* created the table since the probe the statement raises, line 385
\* swallows the error, the INSERT is left out and
\* sendProfitableOpportunityAlert returns true.
SaRecordCreate(w) ==
  /\ AlertAt(w) = "saRecordCreate"
  /\ IF productAlertsTable
       THEN /\ AlertReturns(w, TRUE, AlertLocals(w))
            /\ UNCHANGED productAlertsTable
       ELSE /\ productAlertsTable' = TRUE
            /\ Goto(w, "saRecordInsert", AlertLocals(w))
  /\ UNCHANGED <<untouchedByAlerts, last_insert_rowid, sqlite_sequence, calls, product_alerts, alert_history,
                 alertHistoryTable, runResult, outbox, suppressed, attempts, apiKey>>

\* the row of product_alerts names the listing instead of the product
SaRecordForListing(w) ==
  /\ AlertAt(w) = "saRecordInsert"
  /\ product_alerts' = Append(product_alerts,
                              ProductAlertRow(AlertLocals(w).websiteId,
                                              "opportunity", now))
  /\ AlertReturns(w, TRUE, AlertLocals(w))
  /\ last_insert_rowid' = Len(product_alerts) + 1
  /\ UNCHANGED <<untouchedByAlerts, sqlite_sequence, calls, productAlertsTable, alert_history,
                 alertHistoryTable, runResult, outbox, suppressed, attempts, apiKey>>

\* the alert is reported as sent without a row in product_alerts
SaRecordSkipped(w) ==
  /\ AlertAt(w) = "saRecordInsert"
  /\ AlertReturns(w, TRUE, AlertLocals(w))
  /\ UNCHANGED <<untouchedByAlerts, last_insert_rowid, sqlite_sequence, calls, product_alerts, productAlertsTable,
                 alert_history, alertHistoryTable, runResult, outbox, suppressed,
                 attempts, apiKey>>

\* lines 379-384: INSERT INTO product_alerts, and
\* sendProfitableOpportunityAlert returns true (alert-service.ts line 94)
SaRecord(w) ==
  /\ AlertAt(w) = "saRecordInsert"
  /\ product_alerts' = Append(product_alerts,
                              ProductAlertRow(AlertLocals(w).productId,
                                              "opportunity", now))
  /\ AlertReturns(w, TRUE, AlertLocals(w))
  /\ last_insert_rowid' = Len(product_alerts) + 1
  /\ UNCHANGED <<untouchedByAlerts, sqlite_sequence, calls, productAlertsTable, alert_history,
                 alertHistoryTable, runResult, outbox, suppressed, attempts, apiKey>>

\* the awaits of sendProfitableOpportunityAlert, and of sendEmail under
\* sendDailySummaryEmail
SendAlertPcs ==
  {"saRecent", "saRecentCreate", "saRecentSelect", "saSelect", "saKey",
   "saSend", "saLogProbe", "saLogCreate", "saLogInsert", "saRecord",
   "saRecordCreate", "saRecordInsert"}

\* the call w resumes at the await it is at
SendAlertResumes(w) ==
  /\ AlertAt(w) \in SendAlertPcs
  /\ CASE AlertAt(w) = "saRecent" -> SaRecent(w)
       [] AlertAt(w) = "saRecentCreate" -> SaRecentCreate(w)
       [] AlertAt(w) = "saRecentSelect" -> SaRecentSelect(w)
       [] AlertAt(w) = "saSelect" -> SaSelect(w)
       [] AlertAt(w) = "saKey" -> SaKey(w)
       [] AlertAt(w) = "saSend" -> \E accepted \in BOOLEAN : SaSend(w, accepted)
       [] AlertAt(w) = "saLogProbe" -> SaLogProbe(w)
       [] AlertAt(w) = "saLogCreate" -> SaLogCreate(w)
       [] AlertAt(w) = "saLogInsert" -> SaLogInsert(w)
       [] AlertAt(w) = "saRecord" -> SaRecordProbe(w)
       [] AlertAt(w) = "saRecordCreate" -> SaRecordCreate(w)
       [] AlertAt(w) = "saRecordInsert" -> SaRecord(w)

SendAlert == SendAlertResumes(Service)

\* ------------------------------------------- the API key of the transport
\* what the steps of AlertService.initialize and of storeApiKey leave alone
untouchedBySettings ==
  <<now, ticks, schedulerVars, products, websites, price_history,
    product_alerts, productAlertsTable, alert_history, alertHistoryTable, runResult,
    outbox, suppressed, attempts, route, spApiCredentials, spClient,
    oracleCalls, batch>>

\* alert-service.ts lines 20-22: initialize called on a new AlertService
StartAlertInitialize ==
  /\ mpc = "idle"
  /\ calls < MaxAlertCalls
  /\ calls' = calls + 1
  /\ mpc' = "aiSelect"
  /\ loc' = [op |-> "initialize"]
  /\ out' = NoOut
  /\ apiKey' = [apiKey EXCEPT ![Service] = FALSE]
  /\ UNCHANGED <<untouchedBySettings, last_insert_rowid, sqlite_sequence,
                 appSettings>>

\* EmailService.initialize (crawler-config.ts lines 147-165): the SELECT
\* of the API key in app_settings; the service holds the key when the row
\* is there, and the error of a store without the table is rethrown
AlertInitialize ==
  /\ mpc = "aiSelect"
  /\ mpc' = "idle"
  /\ loc' = NoLoc
  /\ IF appSettings = "noTable"
       THEN /\ out' = RaisedOut("no such table: app_settings")
            /\ UNCHANGED apiKey
       ELSE /\ out' = [kind |-> "initialize"]
            /\ apiKey' = [apiKey EXCEPT ![Service] = @ \/ appSettings = "key"]
  /\ UNCHANGED <<untouchedBySettings, last_insert_rowid, sqlite_sequence,
                 calls, appSettings>>

\* crawler-config.ts line 171: storeApiKey called on a new EmailService
StartStoreApiKey ==
  /\ mpc = "idle"
  /\ calls < MaxAlertCalls
  /\ calls' = calls + 1
  /\ mpc' = "skProbe"
  /\ loc' = [op |-> "storeApiKey"]
  /\ out' = NoOut
  /\ apiKey' = [apiKey EXCEPT ![Service] = FALSE]
  /\ UNCHANGED <<untouchedBySettings, last_insert_rowid, sqlite_sequence,
                 appSettings>>

\* storeApiKey returns or throws (lines 213-221); the service holds the
\* key from line 214 on
AfterStoreApiKey(raised, msg) ==
  /\ mpc' = "idle"
  /\ loc' = NoLoc
  /\ out' = IF raised THEN RaisedOut(msg) ELSE [kind |-> "storeApiKey"]
  /\ apiKey' = [apiKey EXCEPT ![Service] = @ \/ ~raised]

\* lines 174-176: the probe of sqlite_master for the table app_settings
SkProbe ==
  /\ mpc = "skProbe"
  /\ mpc' = IF appSettings = "noTable" THEN "skCreate" ELSE "skSelect"
  /\ UNCHANGED <<untouchedBySettings, last_insert_rowid, sqlite_sequence,
                 calls, appSettings, apiKey, loc, out>>

\* lines 178-191: CREATE TABLE app_settings and its index; when another
\* call has created the table since the probe the statement raises
SkCreate ==
  /\ mpc = "skCreate"
  /\ IF appSettings = "noTable"
       THEN /\ appSettings' = "noKey"
            /\ mpc' = "skSelect"
            /\ UNCHANGED <<apiKey, loc, out>>
       ELSE /\ AfterStoreApiKey(TRUE, "table app_settings already exists")
            /\ UNCHANGED appSettings
  /\ UNCHANGED <<untouchedBySettings, last_insert_rowid, sqlite_sequence,
                 calls>>

\* lines 194-197: SELECT id FROM app_settings WHERE key = ?
SkSelect ==
  /\ mpc = "skSelect"
  /\ mpc' = IF appSettings = "key" THEN "skUpdate" ELSE "skInsert"
  /\ UNCHANGED <<untouchedBySettings, last_insert_rowid, sqlite_sequence,
                 calls, appSettings, apiKey, loc, out>>

\* lines 200-204: UPDATE app_settings SET value, and the return
SkUpdate ==
  /\ mpc = "skUpdate"
  /\ AfterStoreApiKey(FALSE, NoText)
  /\ UNCHANGED <<untouchedBySettings, last_insert_rowid, sqlite_sequence,
                 calls, appSettings>>

\* lines 207-211: INSERT INTO app_settings, and the return; a row with
\* the key that another call has inserted since the SELECT makes the store
\* refuse the INSERT (key is UNIQUE, line 183)
SkInsert ==
  /\ mpc = "skInsert"
  /\ IF appSettings = "key"
       THEN /\ AfterStoreApiKey(
                  TRUE, "UNIQUE constraint failed: app_settings.key")
            /\ UNCHANGED <<appSettings, last_insert_rowid>>
       ELSE /\ appSettings' = "key"
            /\ last_insert_rowid' = 1
            /\ AfterStoreApiKey(FALSE, NoText)
  /\ UNCHANGED <<untouchedBySettings, sqlite_sequence, calls>>

StoreApiKey == SkProbe \/ SkCreate \/ SkSelect \/ SkUpdate \/ SkInsert

\* ----------------------------------- sendAllProfitableOpportunityAlerts
\* lines 116-136: the profitable pairs, ORDER BY profit DESC LIMIT ?
PairsToAlert(limit) ==
  LET pairs == {i \in DOMAIN websites :
                  /\ Joined(i)
                  /\ SqlProfitable(products[websites[i].product_id], websites[i],
                                   AlertMinMarginPercent, AlertMinProfitAmount)}
      profit(i) == SqlProfit(products[websites[i].product_id], websites[i])
  IN Orderings(pairs, [i \in pairs |-> 0 - profit(i)], limit)

\* lines 116-140: the SELECT, and the return when it is empty; the call is
\* made on a new AlertService
StartSendAll ==
  /\ mpc = "idle"
  /\ calls < MaxAlertCalls
  /\ calls' = calls + 1
  /\ apiKey' = [apiKey EXCEPT ![Service] = FALSE]
  /\ \E items \in PairsToAlert(AlertLimit) :
       IF items = <<>>
         THEN /\ out' = SendAllResult([NewSendAll(items) EXCEPT !.idx = 0])
              /\ UNCHANGED <<mpc, batch, loc>>
         ELSE /\ out' = NoOut
              /\ mpc' = "allRecent"
              /\ batch' = NewSendAll(items)
              /\ UNCHANGED loc
  /\ UNCHANGED <<untouchedByAlerts, last_insert_rowid, sqlite_sequence, pc, frame, ret, product_alerts,
                 productAlertsTable, alert_history, alertHistoryTable, runResult, outbox,
                 suppressed, attempts>>

\* lines 147-156: the awaits of wasAlertRecentlySent for the product of
\* the pair the loop is at
AllRecent ==
  /\ mpc \in {"allRecent", "allRecentCreate", "allRecentSelect"}
  /\ CASE mpc = "allRecent" -> SaRecent(Service)
       [] mpc = "allRecentCreate" -> SaRecentCreate(Service)
       [] mpc = "allRecentSelect" -> SaRecentSelect(Service)

SendAll == StartSendAll \/ AllRecent

\* ------------------------------------------------ sendDailySummaryEmail
\* alert-service.ts lines 182-229: the SELECT of the profitable pairs,
\* the return of false when there are none, and the call of sendEmail;
\* the call is made on a new AlertService
StartSendDailySummary ==
  /\ mpc = "idle"
  /\ calls < MaxAlertCalls
  /\ calls' = calls + 1
  /\ apiKey' = [apiKey EXCEPT ![Service] = FALSE]
  /\ \E items \in PairsToAlert(MaxOpportunitiesPerEmail) :
       IF items = <<>>
         THEN /\ out' = SummaryResult(FALSE, "none")
              /\ UNCHANGED <<mpc, loc>>
         ELSE /\ out' = NoOut
              /\ mpc' = "saKey"
              /\ loc' = NewSummary
  /\ UNCHANGED <<untouchedByAlerts, last_insert_rowid, sqlite_sequence, pc, frame, ret, product_alerts,
                 productAlertsTable, alert_history, alertHistoryTable, runResult, outbox,
                 suppressed, attempts, batch>>

\* ------------------------------ the monitoring pass and the alert dispatch
\* a product with two profitable listings (20.00 on the marketplace with
\* fees of 3.00, against 10.00 and 12.00) and a product whose listing is
\* not profitable (13.00)
AlertInit ==
  /\ now = StartHour
  /\ ticks = 0
  /\ edits = 0
  /\ tableExists = FALSE
  /\ runsTableExists = FALSE
  /\ jobs = <<>>
  /\ runs = <<>>
  /\ pc = [w \in Invocations |-> "idle"]
  /\ call = [w \in Invocations |-> NoCall]
  /\ frame = [w \in Invocations |-> NoFrame]
  /\ ret = [w \in Invocations |-> NoRet]
  /\ products = <<ProductRow(2000, 300), ProductRow(2000, 300)>>
  /\ websites = <<WebsiteRow(1, 1000, "In Stock", 0),
                  WebsiteRow(1, 1200, "In Stock", 0),
                  WebsiteRow(2, 1300, "In Stock", 0)>>
  /\ price_history = [i \in 1..3 |-> HistoryRow(i, websites[i].price, "In Stock", 0)]
  /\ product_alerts = <<>>
  /\ productAlertsTable = FALSE
  /\ alert_history = <<>>
  /\ outbox = <<>>
  /\ suppressed = <<>>
  /\ attempts = <<>>
  /\ route = NoRoute
  /\ spApiCredentials = 1
  /\ spClient = "none"
  /\ appSettings = "key"
  /\ apiKey = NoApiKey
  /\ alertHistoryTable = FALSE
  /\ runResult = "meta"
  /\ last_insert_rowid = 0
  /\ sqlite_sequence = SequenceOf(price_history, alert_history)
  /\ oracleCalls = 0
  /\ calls = 0
  /\ mpc = "idle"
  /\ batch = NoBatch
  /\ loc = NoLoc
  /\ out = NoOut

\* what a crawl finds for the first listing: its price, or 11.00
AlertObservedPrices == {1000, 1100}

AlertNext ==
  \/ Advance
  \/ \E websiteId \in 1..3 :
       StartSendAlert(websites[websiteId].product_id, websiteId)
  \/ SendAlert
  \/ SendAll
  \/ \E newPrice \in AlertObservedPrices :
       StartRecordPriceUpdate(1, newPrice, "In Stock")
  \/ RecordPriceUpdate
  \/ RunMonitoringCycle

AlertSpec == AlertInit /\ [][AlertNext]_vars

\* the alert dispatch on its own: the per-opportunity alerts, the dispatch
\* over all opportunities and the daily summary, with time passing
DispatchNext ==
  \/ Advance
  \/ \E websiteId \in 1..3 :
       StartSendAlert(websites[websiteId].product_id, websiteId)
  \/ StartSendAlert(MissingId, 1)
  \/ SendAlert
  \/ SendAll
  \/ StartSendDailySummary

DispatchSpec == AlertInit /\ [][DispatchNext]_vars

\* --------------------------------------------------------- the cron route
\* the awaits of POST (route.ts lines 17-29), in order
RouteStages == <<"initialize", "jobs", "monitoring", "profitability", "alerts">>

\* the route at its k-th await; log holds the awaits it has reached
AtStage(k) == [stage |-> RouteStages[k], log |-> SubSeq(RouteStages, 1, k)]

\* the promise the route awaits has settled with a value
StageReturned(stage) ==
  /\ pc["a"] = "idle"
  /\ mpc = "idle"
  /\ CASE stage = "initialize" -> ret["a"].kind = "appInitialized"
       [] stage = "jobs" -> ret["a"].kind = "counts"
       [] stage = "monitoring" -> out.kind = "runMonitoringCycle"
       [] stage = "profitability" ->
            out.kind = "calculateProfitabilityForAllProducts"
       [] stage = "alerts" -> out.kind = "sendAllProfitableOpportunityAlerts"
       [] OTHER -> FALSE

\* the promise the route awaits has been rejected (lines 43-56)
StageThrew(stage) ==
  /\ pc["a"] = "idle"
  /\ mpc = "idle"
  /\ \/ stage \in {"initialize", "jobs"} /\ ret["a"].kind = "raised"
     \/ stage \in {"monitoring", "profitability", "alerts"} /\ out.kind = "raised"

\* line 8: the route is called, and calls appService.initialize (line 17)
CronCalled ==
  /\ route = NoRoute
  /\ calls = 0
  /\ pc["a"] = "idle"
  /\ mpc = "idle"
  /\ route' = AtStage(1)
  /\ UNCHANGED <<now, last_insert_rowid, sqlite_sequence, ticks, schedulerVars, products, websites, price_history,
                 product_alerts, productAlertsTable, alert_history, outbox,
                 suppressed, attempts, spApiCredentials, spClient,
                 appSettings, apiKey, alertHistoryTable, runResult, oracleCalls, calls,
                 mpc, batch, loc, out>>

\* the route goes on to its next call without the result of the last one
CronGoesOnUnawaited ==
  /\ \E k \in DOMAIN RouteStages :
       /\ route.stage = RouteStages[k]
       /\ route' = IF k = Len(RouteStages)
                     THEN [route EXCEPT !.stage = "done"]
                     ELSE AtStage(k + 1)
  /\ UNCHANGED <<now, last_insert_rowid, sqlite_sequence, ticks, schedulerVars, products, websites, price_history,
                 product_alerts, productAlertsTable, alert_history, outbox,
                 suppressed, attempts, spApiCredentials, spClient,
                 appSettings, apiKey, alertHistoryTable, runResult, oracleCalls, calls,
                 mpc, batch, loc, out>>

\* lines 17-42: an await of the route resumes with a value, and the route
\* makes its next call or responds; lines 43-56: it resumes with an error
\* and responds with status 500
CronGoesOn ==
  /\ \E k \in DOMAIN RouteStages :
       /\ route.stage = RouteStages[k]
       /\ \/ /\ StageReturned(route.stage)
             /\ route' = IF k = Len(RouteStages)
                           THEN [route EXCEPT !.stage = "done"]
                           ELSE AtStage(k + 1)
          \/ /\ StageThrew(route.stage)
             /\ route' = [route EXCEPT !.stage = "failed"]
  /\ UNCHANGED <<now, last_insert_rowid, sqlite_sequence, ticks, schedulerVars, products, websites, price_history,
                 product_alerts, productAlertsTable, alert_history, outbox,
                 suppressed, attempts, spApiCredentials, spClient,
                 appSettings, apiKey, alertHistoryTable, runResult, oracleCalls, calls,
                 mpc, batch, loc, out>>

\* crawler-config.ts line 419, alerts.initializeAlertSystem: the alert
\* service reads the API key (alert-service.ts lines 20-22 and
\* EmailService.initialize, crawler-config.ts lines 147-165). Without the
\* table app_settings the SELECT raises and initialize rethrows; without
\* the row a warning is logged.
CronInitializeAlerts ==
  /\ pc["a"] = "idle"
  /\ ret["a"].kind = "initialized"
  /\ ret' = [ret EXCEPT !["a"] =
               IF appSettings = "noTable"
                 THEN Raised("no such table: app_settings")
                 ELSE [NoRet EXCEPT !.kind = "appInitialized"]]
  /\ UNCHANGED <<now, last_insert_rowid, sqlite_sequence, ticks, edits, tableExists, runsTableExists, jobs, runs,
                 pc, call, frame, storeVars>>

\* line 17, appService.initialize (crawler-config.ts lines 413-426): the
\* bootstrap of the scheduler, then the alert system
CronInitialize ==
  /\ route.stage = "initialize"
  /\ \/ ret["a"].kind = "none" /\ Bootstrap("a")
     \/ CronInitializeAlerts

\* line 20, appService.processScheduledJobs
CronJobs ==
  /\ route.stage = "jobs"
  /\ \/ ret["a"].kind = "appInitialized" /\ StartProcessAllDueJobs("a")
     \/ RunJob("a")

\* line 23, appService.runMonitoringCycle
CronMonitoring ==
  /\ route.stage = "monitoring"
  /\ \/ out.kind = "none" /\ StartRunMonitoringCycle
     \/ mpc # "idle" /\ (RecordPriceUpdate \/ CycleFind \/ CycleCleanupPrices
                           \/ CycleCleanupAlerts)

\* line 26, appService.calculateProfitability
CronProfitability ==
  /\ route.stage = "profitability"
  /\ \/ out.kind = "runMonitoringCycle" /\ StartBackfill
     \/ CalculateProfitability

\* line 29, appService.sendProfitableOpportunityAlerts
CronAlerts ==
  /\ route.stage = "alerts"
  /\ \/ out.kind = "calculateProfitabilityForAllProducts" /\ StartSendAll
     \/ AllRecent
     \/ SendAlert

\* a store that was never initialised, or one whose scheduler tables and
\* default jobs were created at hour 0; the API key of the transport was
\* stored, or the table app_settings was never created; a product with a price, fees and
\* two profitable listings, and a product that has no price yet
CronInit ==
  /\ now = StartHour
  /\ ticks = 0
  /\ edits = 0
  /\ \/ tableExists = FALSE /\ runsTableExists = FALSE /\ jobs = <<>>
     \/ /\ tableExists = TRUE
        /\ runsTableExists = TRUE
        /\ jobs = <<JobRow("monitoring_cycle", MonitoringIntervalHours,
                           OneDayHours),
                    JobRow("data_cleanup", CleanupIntervalHours, SevenDaysHours)>>
  /\ runs = <<>>
  /\ pc = [w \in Invocations |-> "idle"]
  /\ call = [w \in Invocations |-> NoCall]
  /\ frame = [w \in Invocations |-> NoFrame]
  /\ ret = [w \in Invocations |-> NoRet]
  /\ products = <<ProductRow(2000, 300), ProductRow(NULL, NULL)>>
  /\ websites = <<WebsiteRow(1, 1000, "In Stock", 0),
                  WebsiteRow(1, 1200, "In Stock", 0),
                  WebsiteRow(2, 7000, "In Stock", 0)>>
  /\ price_history = [i \in 1..3 |-> HistoryRow(i, websites[i].price, "In Stock", 0)]
  /\ product_alerts = <<>>
  /\ productAlertsTable = FALSE
  /\ alert_history = <<>>
  /\ outbox = <<>>
  /\ suppressed = <<>>
  /\ attempts = <<>>
  /\ route = NoRoute
  /\ spApiCredentials = 1
  /\ spClient = "none"
  /\ appSettings \in {"key", "noTable"}
  /\ apiKey = NoApiKey
  /\ alertHistoryTable = FALSE
  /\ runResult = "meta"
  /\ last_insert_rowid = 0
  /\ sqlite_sequence = SequenceOf(price_history, alert_history)
  /\ oracleCalls = 0
  /\ calls = 0
  /\ mpc = "idle"
  /\ batch = NoBatch
  /\ loc = NoLoc
  /\ out = NoOut

CronNext ==
  \/ CronCalled
  \/ CronGoesOn
  \/ CronInitialize
  \/ CronJobs
  \/ CronMonitoring
  \/ CronProfitability
  \/ CronAlerts

CronSpec == CronInit /\ [][CronNext]_vars

\* ---------------------------------------------------------- processAsinCsv
\* a product as the INSERT of processAsinCsv creates it (crawler-config.ts
\* lines 476-479): no price and no fees yet
IngestedProductRow(asin, upc, title) ==
  [asin |-> asin, upc |-> upc, title |-> title, amazon_price |-> NULL,
   amazon_fees |-> NULL, filled |-> FALSE]

\* a row of the uploaded file, by its ASIN, UPC and Title columns; a
\* column the row has no value in is ""
CsvRecord(asin, upc, title) == [asin |-> asin, upc |-> upc, title |-> title]

\* normalizeCSVRecords (csv-utils.ts lines 72-90): record.ASIN ||
\* record.asin || '', record.UPC || record.upc || null, and record.Title ||
\* record.title || 'Product <asin>'
NormalizeCsvRecord(record) ==
  [asin |-> record.asin,
   upc |-> IF record.upc = "" THEN NoText ELSE record.upc,
   title |-> IF record.title = "" THEN "Product " \o record.asin
                                  ELSE record.title]

\* validateCSV (csv-utils.ts lines 31-65): a file without rows, or with a
\* row without an ASIN, is refused as a whole
ValidateCsv(records) ==
  IF records = <<>> THEN "CSV file is empty"
  ELSE IF \E k \in DOMAIN records : records[k].asin = ""
    THEN "row(s) are missing ASIN values"
  ELSE "valid"

\* no row is ever found to have the ASIN
HasAsinNever(table, asin) == FALSE

\* WHERE asin = ? (line 470), and the UNIQUE constraint on products.asin
\* (0001_initial.sql line 15)
HasAsin(table, asin) == \E i \in DOMAIN table : table[i].asin = asin

\* the locals of processAsinCsv; before is not a local of the code: it
\* keeps the table of products at the call
NewProcessAsinCsv(records) ==
  [op |-> "processAsinCsv", records |-> records,
   normalized |-> [k \in DOMAIN records |-> NormalizeCsvRecord(records[k])],
   idx |-> 1, asinsProcessed |-> 0, before |-> products]

\* the values processAsinCsv returns (lines 441-457 and 494-498)
ProcessAsinCsvResult(b, success) ==
  [kind |-> "processAsinCsv", success |-> success,
   asinsProcessed |-> b.asinsProcessed, records |-> b.records,
   before |-> b.before]

\* lines 438-470: the file is parsed, validated and normalised; a file that
\* is refused ends the call
StartProcessAsinCsv(records) ==
  /\ mpc = "idle"
  /\ calls < MaxCalls
  /\ calls' = calls + 1
  /\ IF ValidateCsv(records) = "valid"
       THEN /\ mpc' = "paSelect"
            /\ batch' = NewProcessAsinCsv(records)
            /\ out' = NoOut
       ELSE /\ out' = ProcessAsinCsvResult(NewProcessAsinCsv(records), FALSE)
            /\ UNCHANGED <<mpc, batch>>
  /\ UNCHANGED <<now, last_insert_rowid, sqlite_sequence, ticks, schedulerVars, products, websites, price_history,
                 product_alerts, productAlertsTable, alert_history, outbox,
                 suppressed, attempts, route, spApiCredentials, spClient, appSettings, apiKey, alertHistoryTable, runResult, oracleCalls, loc>>

\* the loop goes on with the next record, or to the UPDATE of the counter
PaGoesOn(b) ==
  /\ batch' = b
  /\ mpc' = IF b.idx > Len(b.normalized) THEN "paCounter" ELSE "paSelect"

\* lines 467-473: the SELECT of the product by its ASIN; a product that
\* exists is passed over
PaSelect ==
  /\ mpc = "paSelect"
  /\ IF HasAsin(products, batch.normalized[batch.idx].asin)
       THEN PaGoesOn([batch EXCEPT !.idx = @ + 1])
       ELSE mpc' = "paInsert" /\ UNCHANGED batch
  /\ UNCHANGED <<now, last_insert_rowid, sqlite_sequence, ticks, schedulerVars, products, websites, price_history,
                 product_alerts, productAlertsTable, alert_history, outbox,
                 suppressed, attempts, route, spApiCredentials, spClient, appSettings, apiKey, alertHistoryTable, runResult, oracleCalls, calls, loc, out>>

\* lines 474-484: the INSERT; the store refuses a second row with the ASIN,
\* which is logged and not counted
PaInsert ==
  /\ mpc = "paInsert"
  /\ LET record == batch.normalized[batch.idx]
     IN IF HasAsin(products, record.asin)
          THEN /\ PaGoesOn([batch EXCEPT !.idx = @ + 1])
               /\ UNCHANGED <<products, last_insert_rowid>>
          ELSE /\ products' = Append(products,
                                     IngestedProductRow(record.asin, record.upc,
                                                        record.title))
               /\ last_insert_rowid' = Len(products) + 1
               /\ PaGoesOn([batch EXCEPT !.idx = @ + 1,
                                         !.asinsProcessed = @ + 1])
  /\ UNCHANGED <<now, sqlite_sequence, ticks, schedulerVars, websites, price_history,
                 product_alerts, productAlertsTable, alert_history, outbox,
                 suppressed, attempts, route, spApiCredentials, spClient, appSettings, apiKey, alertHistoryTable, runResult, oracleCalls, calls, loc, out>>

\* lines 488-498: the UPDATE of the upload counter, and the return
PaCounter ==
  /\ mpc = "paCounter"
  /\ mpc' = "idle"
  /\ out' = ProcessAsinCsvResult(batch, TRUE)
  /\ batch' = NoBatch
  /\ UNCHANGED <<now, last_insert_rowid, sqlite_sequence, ticks, schedulerVars, products, websites, price_history,
                 product_alerts, productAlertsTable, alert_history, outbox,
                 suppressed, attempts, route, spApiCredentials, spClient, appSettings, apiKey, alertHistoryTable, runResult, oracleCalls, calls, loc>>

ProcessAsinCsv == PaSelect \/ PaInsert \/ PaCounter

\* the uploaded files: empty, one product (with its UPC), another, a
\* product twice (the second time without a title and with another UPC),
\* two products in either order, and a row without an ASIN
CsvUploads ==
  {<<>>,
   <<CsvRecord("B001", "012345678905", "Widget")>>,
   <<CsvRecord("B002", "", "")>>,
   <<CsvRecord("B001", "012345678905", "Widget"),
     CsvRecord("B001", "036000291452", "")>>,
   <<CsvRecord("B001", "", "Widget"), CsvRecord("B002", "036000291452", "")>>,
   <<CsvRecord("B002", "", "Gadget"), CsvRecord("B001", "", "Widget Pro")>>,
   <<CsvRecord("B002", "", "Gadget"), CsvRecord("", "012345678905", "Widget")>>}

\* a store without products
IngestInit ==
  /\ NoStore
  /\ now = StartHour
  /\ ticks = 0
  /\ edits = 0
  /\ tableExists = FALSE
  /\ runsTableExists = FALSE
  /\ jobs = <<>>
  /\ runs = <<>>
  /\ pc = [w \in Invocations |-> "idle"]
  /\ call = [w \in Invocations |-> NoCall]
  /\ frame = [w \in Invocations |-> NoFrame]
  /\ ret = [w \in Invocations |-> NoRet]

IngestNext ==
  \/ \E records \in CsvUploads : StartProcessAsinCsv(records)
  \/ ProcessAsinCsv

IngestSpec == IngestInit /\ [][IngestNext]_vars

\* ------------------------------------------------- the crawler's results
\* a listing as processResults inserts it (part_005 lines 321-336)
CrawledWebsiteRow(productId, site, url, price, stock, checked) ==
  [product_id |-> productId, website_url |-> site, product_url |-> url,
   price |-> price, stock_status |-> stock, last_checked |-> checked]

\* an item that handleProductPage pushed to the dataset (lines 166-173):
\* the URL that was loaded, the site it belongs to, the price extractPrice
\* read (null when it read none) and the stock text
CrawlItem(site, url, price, stockStatus) ==
  [site |-> site, url |-> url, price |-> price, stockStatus |-> stockStatus]

\* part_005 lines 87-105, generateSearchTerms: the templates of
\* SEARCH_TEMPLATES (crawler-config.ts lines 72-84) that are filled in, in
\* the order they are pushed; the two with the UPC only when the product
\* has one (`if (upc)`: not null and not empty)
SearchTemplates(upc) ==
  IF upc # NoText /\ upc # ""
    THEN <<"upcSearch", "combinedSearch", "asinSearch", "titleSearch">>
    ELSE <<"asinSearch", "titleSearch">>

\* CRAWLER_CONFIG.searchEngines (crawler-config.ts lines 46-55)
SearchEngines == <<"Google", "Bing">>

\* part_005 lines 59-75: the requests crawlForProduct adds to the queue,
\* one per search term and engine, the engines of a term one after the
\* other
SearchRequests(productId, upc) ==
  LET terms == SearchTemplates(upc)
      n == Len(SearchEngines)
  IN [k \in 1..(Len(terms) * n) |->
        [label |-> "SEARCH", productId |-> productId,
         searchTerm |-> terms[((k - 1) \div n) + 1],
         engine |-> SearchEngines[((k - 1) % n) + 1]]]

\* the locals of processAsin, of crawlForProduct and of the processResults
\* it ends with; requests are the requests to add, queue is the request
\* queue of the crawler, items are the pages the crawl will find and
\* dataset is what the dataset holds
NewProcessAsin(asin, items) ==
  [op |-> "processAsin", asin |-> asin, productId |-> NULL,
   requests |-> <<>>, queue |-> <<>>, items |-> items,
   dataset |-> <<>>, idx |-> 1, rowid |-> NULL]

\* line 318: the first item from k on that has a price (Len + 1 when none)
NextPriced(items, k) ==
  LET priced == {i \in k..Len(items) : Truthy(items[i].price)}
  IN IF priced = {} THEN Len(items) + 1
     ELSE CHOOSE i \in priced : \A j \in priced : i <= j

\* the loop of processResults goes on with the next item that has a price,
\* or goes on to clear the dataset (line 364)
CrGoesOn(b, k) ==
  LET next == NextPriced(b.dataset, k)
  IN /\ batch' = [b EXCEPT !.idx = next, !.rowid = NULL]
     /\ mpc' = IF next > Len(b.dataset) THEN "crDatasetClear"
                                      ELSE "crInsertWebsite"

\* crawler-service.ts line 18: processAsin is called
StartProcessAsin(asin, items) ==
  /\ mpc = "idle"
  /\ calls < MaxCalls
  /\ calls' = calls + 1
  /\ mpc' = "crFind"
  /\ batch' = NewProcessAsin(asin, items)
  /\ out' = NoOut
  /\ UNCHANGED <<now, last_insert_rowid, sqlite_sequence, ticks, schedulerVars, products, websites, price_history,
                 product_alerts, productAlertsTable, alert_history, outbox,
                 suppressed, attempts, route, spApiCredentials, spClient, appSettings, apiKey, alertHistoryTable, runResult, oracleCalls, loc>>

\* crawler-service.ts lines 21-28: the SELECT of the product by its ASIN; a
\* product that is not there makes processAsin throw. Lines 31-39 and
\* part_005 lines 50-56: crawlForProduct is called, up to its first await
CrFind ==
  /\ mpc = "crFind"
  /\ IF \E i \in DOMAIN products : products[i].asin = batch.asin
       THEN LET id == CHOOSE i \in DOMAIN products :
                        products[i].asin = batch.asin
            IN /\ batch' = [batch EXCEPT
                              !.productId = id,
                              !.requests = SearchRequests(id, products[id].upc)]
               /\ mpc' = "crQueueClear"
               /\ UNCHANGED out
       ELSE /\ out' = [kind |-> "processAsin", threw |-> TRUE,
                       asin |-> batch.asin, items |-> batch.items]
            /\ mpc' = "idle"
            /\ batch' = NoBatch
  /\ UNCHANGED <<now, last_insert_rowid, sqlite_sequence, ticks, schedulerVars, products, websites, price_history,
                 product_alerts, productAlertsTable, alert_history, outbox,
                 suppressed, attempts, route, spApiCredentials, spClient, appSettings, apiKey, alertHistoryTable, runResult, oracleCalls, calls, loc>>

\* part_005 line 53: requestQueue.clear()
CrQueueClear ==
  /\ mpc = "crQueueClear"
  /\ batch' = [batch EXCEPT !.queue = <<>>]
  /\ mpc' = "crAddRequest"
  /\ UNCHANGED <<now, last_insert_rowid, sqlite_sequence, ticks, schedulerVars, products, websites, price_history,
                 product_alerts, productAlertsTable, alert_history, outbox,
                 suppressed, attempts, route, spApiCredentials, spClient, appSettings, apiKey, alertHistoryTable, runResult, oracleCalls, calls, loc, out>>

\* line 63: requestQueue.addRequest(), once per search term and engine
CrAddRequest ==
  /\ mpc = "crAddRequest"
  /\ batch' = [batch EXCEPT !.queue = Append(@, batch.requests[Len(@) + 1])]
  /\ mpc' = IF Len(batch.queue) + 1 < Len(batch.requests)
              THEN "crAddRequest" ELSE "crRun"
  /\ UNCHANGED <<now, last_insert_rowid, sqlite_sequence, ticks, schedulerVars, products, websites, price_history,
                 product_alerts, productAlertsTable, alert_history, outbox,
                 suppressed, attempts, route, spApiCredentials, spClient, appSettings, apiKey, alertHistoryTable, runResult, oracleCalls, calls, loc, out>>

\* line 78: crawler.run() is called and takes the queued requests; it
\* returns at once when the crawl finds no page
CrRun ==
  /\ mpc = "crRun"
  /\ batch' = [batch EXCEPT !.queue = <<>>]
  /\ mpc' = IF batch.items = <<>> THEN "crGetData" ELSE "crPushData"
  /\ UNCHANGED <<now, last_insert_rowid, sqlite_sequence, ticks, schedulerVars, products, websites, price_history,
                 product_alerts, productAlertsTable, alert_history, outbox,
                 suppressed, attempts, route, spApiCredentials, spClient, appSettings, apiKey, alertHistoryTable, runResult, oracleCalls, calls, loc, out>>

\* lines 166-173: handleProductPage awaits Dataset.pushData() once for
\* each page the crawl found; crawler.run() returns after the last one
CrPushData ==
  /\ mpc = "crPushData"
  /\ batch' = [batch EXCEPT
                 !.dataset = Append(@, batch.items[Len(@) + 1])]
  /\ mpc' = IF Len(batch.dataset) + 1 < Len(batch.items)
              THEN "crPushData" ELSE "crGetData"
  /\ UNCHANGED <<now, last_insert_rowid, sqlite_sequence, ticks, schedulerVars, products, websites, price_history,
                 product_alerts, productAlertsTable, alert_history, outbox,
                 suppressed, attempts, route, spApiCredentials, spClient, appSettings, apiKey, alertHistoryTable, runResult, oracleCalls, calls, loc, out>>

\* line 313: Dataset.getData(), and the first item of the loop
CrGetData ==
  /\ mpc = "crGetData"
  /\ CrGoesOn(batch, 1)
  /\ UNCHANGED <<now, last_insert_rowid, sqlite_sequence, ticks, schedulerVars, products, websites, price_history,
                 product_alerts, productAlertsTable, alert_history, outbox,
                 suppressed, attempts, route, spApiCredentials, spClient, appSettings, apiKey, alertHistoryTable, runResult, oracleCalls, calls, loc, out>>

\* part_005 lines 321-336: INSERT INTO websites
CrInsertWebsite ==
  /\ mpc = "crInsertWebsite"
  /\ LET item == batch.dataset[batch.idx]
     IN websites' = Append(websites,
                           CrawledWebsiteRow(batch.productId, item.site,
                                             item.url, item.price,
                                             item.stockStatus, now))
  /\ last_insert_rowid' = Len(websites) + 1
  /\ mpc' = "crRowid"
  /\ UNCHANGED <<now, sqlite_sequence, ticks, schedulerVars, products, price_history,
                 product_alerts, productAlertsTable, alert_history, outbox,
                 suppressed, attempts, route, spApiCredentials, spClient, appSettings, apiKey, alertHistoryTable, runResult, oracleCalls, calls, batch, loc,
                 out>>

\* lines 339-341: SELECT last_insert_rowid(), which answers the id of the
\* row the connection inserted last, in whatever table and by whichever
\* call
CrRowid ==
  /\ mpc = "crRowid"
  /\ batch' = [batch EXCEPT !.rowid = last_insert_rowid]
  /\ mpc' = "crInsertHistory"
  /\ UNCHANGED <<now, last_insert_rowid, sqlite_sequence, ticks, schedulerVars, products, websites, price_history,
                 product_alerts, productAlertsTable, alert_history, outbox,
                 suppressed, attempts, route, spApiCredentials, spClient, appSettings, apiKey, alertHistoryTable, runResult, oracleCalls, calls, loc, out>>

\* lines 343-357: when the id read is not 0, INSERT INTO price_history
\* with it as website_id. The store rejects the row when the id is the id
\* of no listing (FOREIGN KEY (website_id) REFERENCES websites(id),
\* 0001_initial.sql line 48): the catch at lines 358-360 logs the error
\* and the loop goes on with the next item
CrInsertHistory ==
  /\ mpc = "crInsertHistory"
  /\ IF Truthy(batch.rowid) /\ batch.rowid \in DOMAIN websites
       THEN /\ price_history' =
                 Append(price_history,
                        HistoryRow(batch.rowid,
                                   batch.dataset[batch.idx].price,
                                   batch.dataset[batch.idx].stockStatus,
                                   now))
            /\ last_insert_rowid' = sqlite_sequence.price_history + 1
            /\ sqlite_sequence' =
                 [sqlite_sequence EXCEPT !.price_history = @ + 1]
       ELSE UNCHANGED <<price_history, last_insert_rowid, sqlite_sequence>>
  /\ CrGoesOn(batch, batch.idx + 1)
  /\ UNCHANGED <<now, ticks, schedulerVars, products, websites,
                 product_alerts, productAlertsTable, alert_history, outbox,
                 suppressed, attempts, route, spApiCredentials, spClient, appSettings, apiKey, alertHistoryTable, runResult, oracleCalls, calls, loc, out>>

\* part_005 line 364: Dataset.clear(), the last await of processResults
CrDatasetClear ==
  /\ mpc = "crDatasetClear"
  /\ batch' = [batch EXCEPT !.dataset = <<>>]
  /\ mpc' = "crTouch"
  /\ UNCHANGED <<now, last_insert_rowid, sqlite_sequence, ticks, schedulerVars, products, websites, price_history,
                 product_alerts, productAlertsTable, alert_history, outbox,
                 suppressed, attempts, route, spApiCredentials, spClient, appSettings, apiKey, alertHistoryTable, runResult, oracleCalls, calls, loc, out>>

\* crawler-service.ts lines 42-47: UPDATE products SET updated_at (a column
\* the model does not keep), and processAsin returns
CrTouch ==
  /\ mpc = "crTouch"
  /\ out' = [kind |-> "processAsin", threw |-> FALSE, asin |-> batch.asin,
             items |-> batch.items]
  /\ mpc' = "idle"
  /\ batch' = NoBatch
  /\ UNCHANGED <<now, last_insert_rowid, sqlite_sequence, ticks, schedulerVars, products, websites, price_history,
                 product_alerts, productAlertsTable, alert_history, outbox,
                 suppressed, attempts, route, spApiCredentials, spClient, appSettings, apiKey, alertHistoryTable, runResult, oracleCalls, calls, loc>>

ProcessAsin ==
  \/ CrFind
  \/ CrQueueClear
  \/ CrAddRequest
  \/ CrRun
  \/ CrPushData
  \/ CrGetData
  \/ CrInsertWebsite
  \/ CrRowid
  \/ CrInsertHistory
  \/ CrDatasetClear
  \/ CrTouch

\* ---------------------------------------------------- updateStaleWebsites
\* the defaults of updateStaleWebsites (crawler-service.ts line 120): the
\* age in days and the LIMIT
StaleDaysOld == 1
StaleLimit == 20

\* lines 126-135: the listings of a product whose last_checked is older
\* than daysOld days, in any order the store gives them, cut at the LIMIT
StaleWebsites(t, daysOld, limit) ==
  LET stale == {i \in DOMAIN websites :
                  /\ websites[i].product_id \in DOMAIN products
                  /\ websites[i].last_checked # NULL
                  /\ websites[i].last_checked < t - daysOld * OneDayHours}
  IN Orderings(stale, [i \in stale |-> 0], limit)

\* the locals of updateStaleWebsites; rows holds the ids of the listings
\* selected
NewUpdateStaleWebsites(daysOld, limit) ==
  [op |-> "updateStaleWebsites", daysOld |-> daysOld, limit |-> limit,
   rows |-> <<>>, idx |-> 1, updated |-> 0, unchanged |-> 0, failed |-> 0]

\* lines 137-139 and 166
UpdateStaleWebsitesResult(b) ==
  [kind |-> "updateStaleWebsites", updated |-> b.updated,
   unchanged |-> b.unchanged, failed |-> b.failed]

\* crawler-service.ts line 120: updateStaleWebsites is called
StartUpdateStaleWebsites(daysOld, limit) ==
  /\ mpc = "idle"
  /\ calls < MaxCalls
  /\ calls' = calls + 1
  /\ mpc' = "usSelect"
  /\ batch' = NewUpdateStaleWebsites(daysOld, limit)
  /\ out' = NoOut
  /\ UNCHANGED <<now, last_insert_rowid, sqlite_sequence, ticks, schedulerVars, products, websites, price_history,
                 product_alerts, productAlertsTable, alert_history, outbox,
                 suppressed, attempts, route, spApiCredentials, spClient, appSettings, apiKey, alertHistoryTable, runResult, oracleCalls, loc>>

\* lines 122-139: the SELECT of the stale listings, and the return when
\* there is none
UsSelect ==
  /\ mpc = "usSelect"
  /\ \E rows \in StaleWebsites(now, batch.daysOld, batch.limit) :
       IF rows = <<>>
         THEN /\ out' = UpdateStaleWebsitesResult(batch)
              /\ mpc' = "idle"
              /\ batch' = NoBatch
         ELSE /\ batch' = [batch EXCEPT !.rows = rows]
              /\ mpc' = "usUpdate"
              /\ UNCHANGED out
  /\ UNCHANGED <<now, last_insert_rowid, sqlite_sequence, ticks, schedulerVars, products, websites, price_history,
                 product_alerts, productAlertsTable, alert_history, outbox,
                 suppressed, attempts, route, spApiCredentials, spClient, appSettings, apiKey, alertHistoryTable, runResult, oracleCalls, loc, calls>>

\* lines 148-160: UPDATE websites SET last_checked of the listing the loop
\* is at, which counts as unchanged; after the last one the call returns
\* (line 166)
UsUpdate ==
  /\ mpc = "usUpdate"
  /\ websites' = [websites EXCEPT ![batch.rows[batch.idx]].last_checked = now]
  /\ LET b == [batch EXCEPT !.idx = @ + 1, !.unchanged = @ + 1]
     IN IF b.idx > Len(b.rows)
          THEN /\ out' = UpdateStaleWebsitesResult(b)
               /\ mpc' = "idle"
               /\ batch' = NoBatch
          ELSE /\ batch' = b
               /\ UNCHANGED <<mpc, out>>
  /\ UNCHANGED <<now, last_insert_rowid, sqlite_sequence, ticks, schedulerVars, products, price_history,
                 product_alerts, productAlertsTable, alert_history, outbox,
                 suppressed, attempts, route, spApiCredentials, spClient, appSettings, apiKey, alertHistoryTable, runResult, oracleCalls, loc, calls>>

UpdateStaleWebsites == UsSelect \/ UsUpdate

\* the clock of a behaviour with retention sweeps advances by the age
\* alert_history is kept, or by half a day more than the age price_history
\* is kept, between two calls of the services
RetentionTickSteps ==
  {AlertHistoryDays * OneDayHours,
   PriceHistoryDays * OneDayHours + HalfDayHours}

AdvanceDays ==
  /\ mpc = "idle"
  /\ ticks < MaxTicks
  /\ \E d \in RetentionTickSteps : now' = now + d
  /\ ticks' = ticks + 1
  /\ UNCHANGED <<edits, tableExists, runsTableExists, jobs, runs, pc, call, frame, ret>>
  /\ UNCHANGED <<storeVars, last_insert_rowid, sqlite_sequence>>

\* the datasets a crawl fills: nothing; one page; a page without a price
\* and a page of another site; a page whose price reads as 0; and two
\* pages of one site
CrawlDatasets ==
  {<<>>,
   <<CrawlItem("shop-a.example", "https://shop-a.example/p/1", 1000,
               "In Stock")>>,
   <<CrawlItem("shop-a.example", "https://shop-a.example/p/1", NULL, ""),
     CrawlItem("shop-b.example", "https://shop-b.example/p/7", 1200,
               "Sold out")>>,
   <<CrawlItem("shop-b.example", "https://shop-b.example/p/7", 0,
               "In Stock")>>,
   <<CrawlItem("shop-a.example", "https://shop-a.example/p/1", 1000,
               "In Stock"),
     CrawlItem("shop-a.example", "https://shop-a.example/p/2", 900,
               "Ships today")>>}

\* the ASINs processAsin is called with: the product's, and one that no
\* product has
CrawlAsins == {"B001", "B009"}

\* the price a later observation of the first listing finds, in cents
RecrawledPrice == 1100

\* one ingested product, not yet crawled
CrawlInit ==
  /\ now = StartHour
  /\ ticks = 0
  /\ edits = 0
  /\ tableExists = FALSE
  /\ runsTableExists = FALSE
  /\ jobs = <<>>
  /\ runs = <<>>
  /\ pc = [w \in Invocations |-> "idle"]
  /\ call = [w \in Invocations |-> NoCall]
  /\ frame = [w \in Invocations |-> NoFrame]
  /\ ret = [w \in Invocations |-> NoRet]
  /\ products = <<IngestedProductRow("B001", NoText, "Widget")>>
  /\ websites = <<>>
  /\ price_history = <<>>
  /\ product_alerts = <<>>
  /\ productAlertsTable = FALSE
  /\ alert_history = <<>>
  /\ outbox = <<>>
  /\ suppressed = <<>>
  /\ attempts = <<>>
  /\ route = NoRoute
  /\ spApiCredentials = 1
  /\ spClient = "none"
  /\ appSettings = "key"
  /\ apiKey = NoApiKey
  /\ alertHistoryTable = FALSE
  /\ runResult = "meta"
  /\ last_insert_rowid = 0
  /\ sqlite_sequence = SequenceOf(price_history, alert_history)
  /\ oracleCalls = 0
  /\ calls = 0
  /\ mpc = "idle"
  /\ batch = NoBatch
  /\ loc = NoLoc
  /\ out = NoOut

CrawlNext ==
  \/ AdvanceDays
  \/ \E asin \in CrawlAsins : \E items \in CrawlDatasets :
       StartProcessAsin(asin, items)
  \/ ProcessAsin
  \/ StartUpdateStaleWebsites(StaleDaysOld, StaleLimit)
  \/ UpdateStaleWebsites
  \/ StartRecordPriceUpdate(1, RecrawledPrice, "In Stock")
  \/ RecordPriceUpdate
  \/ RunMonitoringCycle

CrawlSpec == CrawlInit /\ [][CrawlNext]_vars

\* ------------------------------------- a crawl while runJob is at work
\* processAsin and runJob are called on one connection of the store, and
\* the awaited statements of the two take their turns in any order: the
\* scheduler's tables exist with the two default jobs, and the product is
\* not yet crawled

\* the datasets of the crawl: one page, and two pages of one site
OverlapDatasets ==
  {items \in CrawlDatasets \ {<<>>} :
     \A k \in DOMAIN items : Truthy(items[k].price)}

\* the id of the data_cleanup job
CleanupJobId == 2

\* the store of a crawl beside the data_cleanup job, on either binding
CrawlOverlapInit ==
  /\ now = StartHour
  /\ ticks = 0
  /\ edits = 0
  /\ tableExists = TRUE
  /\ runsTableExists = TRUE
  /\ jobs = <<JobRow("monitoring_cycle", MonitoringIntervalHours, OneDayHours),
              JobRow("data_cleanup", CleanupIntervalHours, SevenDaysHours)>>
  /\ runs = <<>>
  /\ pc = [w \in Invocations |-> "idle"]
  /\ call = [w \in Invocations |-> NoCall]
  /\ frame = [w \in Invocations |-> NoFrame]
  /\ ret = [w \in Invocations |-> NoRet]
  /\ products = <<IngestedProductRow("B001", NoText, "Widget")>>
  /\ websites = <<>>
  /\ price_history = <<>>
  /\ product_alerts = <<>>
  /\ productAlertsTable = FALSE
  /\ alert_history = <<>>
  /\ outbox = <<>>
  /\ suppressed = <<>>
  /\ attempts = <<>>
  /\ route = NoRoute
  /\ spApiCredentials = 1
  /\ spClient = "none"
  /\ appSettings = "key"
  /\ apiKey = NoApiKey
  /\ alertHistoryTable = FALSE
  /\ runResult \in RunResultShapes
  /\ last_insert_rowid = 0
  /\ sqlite_sequence = SequenceOf(price_history, alert_history)
  /\ oracleCalls = 0
  /\ calls = 0
  /\ mpc = "idle"
  /\ batch = NoBatch
  /\ loc = NoLoc
  /\ out = NoOut

CrawlOverlapNext ==
  \/ AdvanceDays
  \/ \E items \in OverlapDatasets : StartProcessAsin("B001", items)
  \/ ProcessAsin
  \/ StartRunJob("a", CleanupJobId)
  \/ RunJob("a")

CrawlOverlapSpec == CrawlOverlapInit /\ [][CrawlOverlapNext]_vars

\* ------------------------------------------------- the retention sweep
\* what a later observation of the listing finds: its price, or 11.00
RetentionObservedPrices == {1000, 1100}

\* one profitable product with one listing, crawled at hour 0
RetentionInit ==
  /\ now = StartHour
  /\ ticks = 0
  /\ edits = 0
  /\ tableExists = FALSE
  /\ runsTableExists = FALSE
  /\ jobs = <<>>
  /\ runs = <<>>
  /\ pc = [w \in Invocations |-> "idle"]
  /\ call = [w \in Invocations |-> NoCall]
  /\ frame = [w \in Invocations |-> NoFrame]
  /\ ret = [w \in Invocations |-> NoRet]
  /\ products = <<ProductRow(2000, 300)>>
  /\ websites = <<WebsiteRow(1, 1000, "In Stock", 0)>>
  /\ price_history = <<HistoryRow(1, 1000, "In Stock", 0)>>
  /\ product_alerts = <<>>
  /\ productAlertsTable = FALSE
  /\ alert_history = <<>>
  /\ outbox = <<>>
  /\ suppressed = <<>>
  /\ attempts = <<>>
  /\ route = NoRoute
  /\ spApiCredentials = 1
  /\ spClient = "none"
  /\ appSettings = "key"
  /\ apiKey = NoApiKey
  /\ alertHistoryTable = FALSE
  /\ runResult = "meta"
  /\ last_insert_rowid = 0
  /\ sqlite_sequence = SequenceOf(price_history, alert_history)
  /\ oracleCalls = 0
  /\ calls = 0
  /\ mpc = "idle"
  /\ batch = NoBatch
  /\ loc = NoLoc
  /\ out = NoOut

RetentionNext ==
  \/ AdvanceDays
  \/ StartSendAlert(1, 1)
  \/ SendAlert
  \/ \E newPrice \in RetentionObservedPrices :
       StartRecordPriceUpdate(1, newPrice, "In Stock")
  \/ RecordPriceUpdate
  \/ RunMonitoringCycle

RetentionSpec == RetentionInit /\ [][RetentionNext]_vars

\* ------------------------------------- the sweep as the data_cleanup job
\* The scheduler's tables with the two default jobs, on a store of either
\* binding; one listing crawled at hour 0 and observed again at hour 48,
\* with or without the log of e-mails and its one row of hour 0
CleanupJobInit ==
  /\ now = StartHour
  /\ ticks = 0
  /\ edits = 0
  /\ tableExists = TRUE
  /\ runsTableExists = TRUE
  /\ jobs = <<JobRow("monitoring_cycle", MonitoringIntervalHours, OneDayHours),
              JobRow("data_cleanup", CleanupIntervalHours, SevenDaysHours)>>
  /\ runs = <<>>
  /\ pc = [w \in Invocations |-> "idle"]
  /\ call = [w \in Invocations |-> NoCall]
  /\ frame = [w \in Invocations |-> NoFrame]
  /\ ret = [w \in Invocations |-> NoRet]
  /\ products = <<ProductRow(2000, 300)>>
  /\ websites = <<WebsiteRow(1, 1100, "In Stock", StartHour)>>
  /\ price_history = <<HistoryRow(1, 1000, "In Stock", 0),
                       HistoryRow(1, 1100, "In Stock", StartHour)>>
  /\ product_alerts = <<>>
  /\ productAlertsTable = FALSE
  /\ alertHistoryTable \in BOOLEAN
  /\ alert_history = IF alertHistoryTable THEN <<AlertHistoryRow(1, 0)>>
                     ELSE <<>>
  /\ outbox = <<>>
  /\ suppressed = <<>>
  /\ attempts = <<>>
  /\ route = NoRoute
  /\ spApiCredentials = 1
  /\ spClient = "none"
  /\ appSettings = "key"
  /\ apiKey = NoApiKey
  /\ runResult \in RunResultShapes
  /\ last_insert_rowid = 0
  /\ sqlite_sequence = SequenceOf(price_history, alert_history)
  /\ oracleCalls = 0
  /\ calls = 0
  /\ mpc = "idle"
  /\ batch = NoBatch
  /\ loc = NoLoc
  /\ out = NoOut

CleanupJobNext ==
  \/ AdvanceDays
  \/ \E jobId \in DOMAIN jobs : StartRunJob("a", jobId)
  \/ RunJob("a")

CleanupJobSpec == CleanupJobInit /\ [][CleanupJobNext]_vars

\* ------------------------------------------- the stock text of a page
\* the pieces of text a page shows about its stock
StockFragments ==
  {"", "In Stock", "Out of Stock", "SOLD OUT", "Unavailable",
   "Currently unavailable", "Not available", "No longer available",
   "out-of-stock", "Available", "Add to Cart", "Buy Now", "in-stock",
   "Ships in 2 days", "Call for price", "Discontinued", "Pre-order"}

\* the text of the stock element of a page that shows two pieces
StockTextOf(parts) ==
  IF parts[1] = "" THEN parts[2]
  ELSE IF parts[2] = "" THEN parts[1]
  ELSE parts[1] \o ", " \o parts[2]

\* extractProductData has read the stock text of a page (part_005 line 226)
StockInit ==
  /\ now = StartHour
  /\ ticks = 0
  /\ edits = 0
  /\ tableExists = FALSE
  /\ runsTableExists = FALSE
  /\ jobs = <<>>
  /\ runs = <<>>
  /\ pc = [w \in Invocations |-> "idle"]
  /\ call = [w \in Invocations |-> NoCall]
  /\ frame = [w \in Invocations |-> NoFrame]
  /\ ret = [w \in Invocations |-> NoRet]
  /\ products = <<>>
  /\ websites = <<>>
  /\ price_history = <<>>
  /\ product_alerts = <<>>
  /\ productAlertsTable = FALSE
  /\ alert_history = <<>>
  /\ outbox = <<>>
  /\ suppressed = <<>>
  /\ attempts = <<>>
  /\ route = NoRoute
  /\ spApiCredentials = 1
  /\ spClient = "none"
  /\ appSettings = "key"
  /\ apiKey = NoApiKey
  /\ alertHistoryTable = FALSE
  /\ runResult = "meta"
  /\ last_insert_rowid = 0
  /\ sqlite_sequence = SequenceOf(price_history, alert_history)
  /\ oracleCalls = 0
  /\ calls = 0
  /\ mpc = "idle"
  /\ batch = NoBatch
  /\ \E parts \in StockFragments \X StockFragments :
       loc = [op |-> "extractProductData", parts |-> parts,
              stockStatus |-> StockTextOf(parts)]
  /\ out = NoOut

\* part_005 line 242: inStock: this.determineStockStatus(stockStatus)
ExtractStock ==
  /\ mpc = "idle"
  /\ loc.op = "extractProductData"
  /\ out' = [kind |-> "extractProductData", parts |-> loc.parts,
             stockStatus |-> loc.stockStatus,
             inStock |-> determineStockStatus(loc.stockStatus)]
  /\ loc' = NoLoc
  /\ UNCHANGED <<now, last_insert_rowid, sqlite_sequence, ticks, schedulerVars, products, websites, price_history,
                 product_alerts, productAlertsTable, alert_history, outbox,
                 suppressed, attempts, route, spApiCredentials, spClient, appSettings, apiKey, alertHistoryTable, runResult, oracleCalls, calls, mpc, batch>>

StockNext == ExtractStock

StockSpec == StockInit /\ [][StockNext]_vars

\* ------------------------------------------------ the six-hourly trigger
\* the cron trigger of the deployment guide: 0 */6 * * *
CronIntervalHours == 6

\* the hours at which the listings were last checked when the trigger is
\* first looked at, at hour 48
CheckedHours == {0, 24, 42}

\* the trigger fires and the route calls runMonitoringCycle (route.ts
\* line 23)
SixHourlyCycle ==
  /\ out.kind = "none"
  /\ StartRunMonitoringCycle

\* six hours pass after the cycle has returned
SixHoursPass ==
  /\ mpc = "idle"
  /\ out.kind = "runMonitoringCycle"
  /\ ticks < MaxTicks
  /\ ticks' = ticks + 1
  /\ now' = now + CronIntervalHours
  /\ out' = NoOut
  /\ UNCHANGED <<last_insert_rowid, sqlite_sequence, schedulerVars, products,
                 websites, price_history,
                 product_alerts, productAlertsTable, alert_history, outbox,
                 suppressed, attempts, route, spApiCredentials, spClient, appSettings, apiKey, alertHistoryTable, runResult, oracleCalls, calls, mpc, batch,
                 loc>>

\* one product with two listings
SixHourlyInit ==
  /\ now = StartHour
  /\ ticks = 0
  /\ edits = 0
  /\ tableExists = FALSE
  /\ runsTableExists = FALSE
  /\ jobs = <<>>
  /\ runs = <<>>
  /\ pc = [w \in Invocations |-> "idle"]
  /\ call = [w \in Invocations |-> NoCall]
  /\ frame = [w \in Invocations |-> NoFrame]
  /\ ret = [w \in Invocations |-> NoRet]
  /\ products = <<ProductRow(2000, 300)>>
  /\ \E c1, c2 \in CheckedHours :
       /\ websites = <<WebsiteRow(1, 1000, "In Stock", c1),
                       WebsiteRow(1, 1800, "Sold out", c2)>>
       /\ price_history = <<HistoryRow(1, 1000, "In Stock", 0),
                            HistoryRow(2, 1800, "Sold out", 0)>>
  /\ product_alerts = <<>>
  /\ productAlertsTable = FALSE
  /\ alert_history = <<>>
  /\ outbox = <<>>
  /\ suppressed = <<>>
  /\ attempts = <<>>
  /\ route = NoRoute
  /\ spApiCredentials = 1
  /\ spClient = "none"
  /\ appSettings = "key"
  /\ apiKey = NoApiKey
  /\ alertHistoryTable = FALSE
  /\ runResult = "meta"
  /\ last_insert_rowid = 0
  /\ sqlite_sequence = SequenceOf(price_history, alert_history)
  /\ oracleCalls = 0
  /\ calls = 0
  /\ mpc = "idle"
  /\ batch = NoBatch
  /\ loc = NoLoc
  /\ out = NoOut

SixHourlyNext ==
  \/ SixHourlyCycle
  \/ RpuSelect
  \/ RpuTouch
  \/ CycleFind
  \/ CycleCleanupPrices
  \/ CycleCleanupAlerts
  \/ SixHoursPass

SixHourlySpec == SixHourlyInit /\ [][SixHourlyNext]_vars

\* ------------------------------------------ calls for a missing entity
\* a call of one of the services; its awaited statements take their turns
\* with those of runJob in any order
EntityServiceCall ==
  \/ \E productId \in {1, MissingId} : \E websiteId \in {1, MissingId} :
       StartCalculateProfitability(productId, websiteId)
  \/ CalculateProfitability
  \/ \E websiteId \in {1, MissingId} : \E newPrice \in AlertObservedPrices :
       StartRecordPriceUpdate(websiteId, newPrice, "In Stock")
  \/ RecordPriceUpdate
  \/ \E asin \in CrawlAsins :
       StartProcessAsin(asin, <<CrawlItem("shop-b.example",
                                          "https://shop-b.example/p/7",
                                          1200, "Sold out")>>)
  \/ ProcessAsin

\* a call of runJob, for the data_cleanup job or for a job that is not
\* there
EntityRunJobCall ==
  \/ \E jobId \in {CleanupJobId, MissingId} : StartRunJob("a", jobId)
  \/ RunJob("a")

\* the scheduler's tables with the two default jobs, created at hour 0;
\* one product, with or without a price and fees, and one listing of it
EntityInit ==
  /\ now = StartHour
  /\ ticks = 0
  /\ edits = 0
  /\ tableExists = TRUE
  /\ runsTableExists = TRUE
  /\ jobs = <<JobRow("monitoring_cycle", MonitoringIntervalHours, OneDayHours),
              JobRow("data_cleanup", CleanupIntervalHours, SevenDaysHours)>>
  /\ runs = <<>>
  /\ pc = [w \in Invocations |-> "idle"]
  /\ call = [w \in Invocations |-> NoCall]
  /\ frame = [w \in Invocations |-> NoFrame]
  /\ ret = [w \in Invocations |-> NoRet]
  /\ \E priced \in BOOLEAN :
       products = <<[IngestedProductRow("B001", NoText, "Widget") EXCEPT
                       !.amazon_price = IF priced THEN 2000 ELSE NULL,
                       !.amazon_fees = IF priced THEN 300 ELSE NULL]>>
  /\ websites = <<CrawledWebsiteRow(1, "shop-a.example",
                                    "https://shop-a.example/p/1", 1000,
                                    "In Stock", 0)>>
  /\ price_history = <<HistoryRow(1, 1000, "In Stock", 0)>>
  /\ product_alerts = <<>>
  /\ productAlertsTable = FALSE
  /\ alert_history = <<>>
  /\ outbox = <<>>
  /\ suppressed = <<>>
  /\ attempts = <<>>
  /\ route = NoRoute
  /\ spApiCredentials = 1
  /\ spClient = "none"
  /\ appSettings = "key"
  /\ apiKey = NoApiKey
  /\ alertHistoryTable = FALSE
  /\ runResult = "meta"
  /\ last_insert_rowid = 0
  /\ sqlite_sequence = SequenceOf(price_history, alert_history)
  /\ oracleCalls = 0
  /\ calls = 0
  /\ mpc = "idle"
  /\ batch = NoBatch
  /\ loc = NoLoc
  /\ out = NoOut

EntityNext == EntityServiceCall \/ EntityRunJobCall

EntitySpec == EntityInit /\ [][EntityNext]_vars
\* ------------------------------- the cron route and the monitoring job
\* the rows the monitoring_cycle job can be found as when the route is
\* called: due, not yet due, paused when due and paused when not due
MonitoringJobRows ==
  {[JobRow("monitoring_cycle", MonitoringIntervalHours, next)
      EXCEPT !.status = status] :
     next \in {OneDayHours, StartHour + MonitoringIntervalHours},
     status \in {"active", "paused"}}

\* a store whose scheduler tables exist, with the monitoring_cycle job in
\* one of its states and the data_cleanup job not yet due; the table
\* app_settings has the API key of the transport, has no row for it, or
\* was never created; the products and listings of CronInit, every listing
\* stale
CronJobStateInit ==
  /\ now = StartHour
  /\ ticks = 0
  /\ edits = 0
  /\ tableExists = TRUE
  /\ runsTableExists = TRUE
  /\ \E job \in MonitoringJobRows :
       jobs = <<job,
                JobRow("data_cleanup", CleanupIntervalHours, SevenDaysHours)>>
  /\ runs = <<>>
  /\ pc = [w \in Invocations |-> "idle"]
  /\ call = [w \in Invocations |-> NoCall]
  /\ frame = [w \in Invocations |-> NoFrame]
  /\ ret = [w \in Invocations |-> NoRet]
  /\ products = <<ProductRow(2000, 300), ProductRow(NULL, NULL)>>
  /\ websites = <<WebsiteRow(1, 1000, "In Stock", 0),
                  WebsiteRow(1, 1200, "In Stock", 0),
                  WebsiteRow(2, 7000, "In Stock", 0)>>
  /\ price_history = [i \in 1..3 |-> HistoryRow(i, websites[i].price, "In Stock", 0)]
  /\ product_alerts = <<>>
  /\ productAlertsTable = FALSE
  /\ alert_history = <<>>
  /\ outbox = <<>>
  /\ suppressed = <<>>
  /\ attempts = <<>>
  /\ route = NoRoute
  /\ spApiCredentials = 1
  /\ spClient = "none"
  /\ appSettings \in {"key", "noKey", "noTable"}
  /\ apiKey = NoApiKey
  /\ alertHistoryTable = FALSE
  /\ runResult = "meta"
  /\ last_insert_rowid = 0
  /\ sqlite_sequence = SequenceOf(price_history, alert_history)
  /\ oracleCalls = 0
  /\ calls = 0
  /\ mpc = "idle"
  /\ batch = NoBatch
  /\ loc = NoLoc
  /\ out = NoOut

CronJobStateNext ==
  \/ CronCalled
  \/ CronGoesOn
  \/ CronInitialize
  \/ CronJobs
  \/ CronMonitoring
  \/ CronProfitability
  \/ CronAlerts

\* the runtime resumes the route and the calls it awaits
CronJobStateSpec ==
  /\ CronJobStateInit
  /\ [][CronJobStateNext]_vars
  /\ WF_vars(CronJobStateNext)

\* ---------------------------------------- a backlog larger than one batch
\* the batch limit the backlog is looked at with, in place of the 100 of
\* MONITORING_CONFIG.batchSize
ScaledBatchSize == 2

\* the newest of the stale listings come first
GetWebsitesToMonitorNewestFirst(t, limit) ==
  LET ids == {i \in DOMAIN websites :
                Joined(i) /\ websites[i].last_checked < t - DefaultSchedule}
      orders == Orderings(ids, [i \in ids |-> 0 - websites[i].last_checked],
                          limit)
  IN {[k \in DOMAIN s |-> [id |-> s[k], price |-> websites[s[k]].price,
                           stock_status |-> websites[s[k]].stock_status]] :
        s \in orders}

\* getWebsitesToMonitor(limit): WHERE datetime(w.last_checked) <
\* datetime('now', '-24 hours') ORDER BY w.last_checked ASC LIMIT limit
GetWebsitesToMonitor(t, limit) ==
  LET ids == {i \in DOMAIN websites :
                Joined(i) /\ websites[i].last_checked < t - DefaultSchedule}
      orders == Orderings(ids, [i \in ids |-> websites[i].last_checked],
                          limit)
  IN {[k \in DOMAIN s |-> [id |-> s[k], price |-> websites[s[k]].price,
                           stock_status |-> websites[s[k]].stock_status]] :
        s \in orders}

\* lines 239-253 of runMonitoringCycle, with the scaled batch limit
StartBatchCycle ==
  /\ mpc = "idle"
  /\ calls < MaxCalls
  /\ calls' = calls + 1
  /\ out' = NoOut
  /\ \E rows \in GetWebsitesToMonitor(now, ScaledBatchSize) :
       /\ batch' = NewCycle(rows)
       /\ IF rows = <<>>
            THEN /\ mpc' = "cycleFind"
                 /\ loc' = NoLoc
            ELSE /\ mpc' = "rpuSelect"
                 /\ loc' = NewRecordPriceUpdate(rows[1].id, rows[1].price,
                                                rows[1].stock_status, "cycle")
  /\ UNCHANGED <<now, last_insert_rowid, sqlite_sequence, ticks, schedulerVars, products, websites, price_history,
                 product_alerts, productAlertsTable, alert_history, outbox,
                 suppressed, attempts, route, spApiCredentials, spClient, appSettings, apiKey, alertHistoryTable, runResult,
                 oracleCalls>>

\* what the other caller observed of the first listing, the one checked
\* longest ago: the price the listing was crawled at, or a higher one
OtherObservedPrices == {1000, RecrawledPrice}

\* the steps of a cycle after its start
BatchCycleGoesOn ==
  \/ RpuSelect
  \/ RpuUpdate
  \/ RpuInsert
  \/ RpuTouch
  \/ CycleFind
  \/ CycleCleanupPrices
  \/ CycleCleanupAlerts

\* ------------------------------ a recordPriceUpdate call beside the cycle
\* Another caller calls recordPriceUpdate as an entry point while the
\* cycle runs. Its position is pc["b"], its locals are frame["b"] and its
\* result is ret["b"]; the cycle is the call of mpc, batch and loc. It
\* makes one call in a behaviour. The fields before, events and at of the
\* locals, which are not locals of the code, stay as they are at the call.
untouchedByOtherCaller ==
  <<now, ticks, edits, tableExists, runsTableExists, jobs, runs, call,
    products, product_alerts, productAlertsTable, alert_history, outbox,
    suppressed, attempts, route, spApiCredentials, spClient, appSettings,
    apiKey, alertHistoryTable, runResult, oracleCalls, calls, mpc, batch, loc,
    out>>

StartOtherRecordPriceUpdate(websiteId, newPrice, newStockStatus) ==
  /\ pc["b"] = "idle"
  /\ ret["b"] = NoRet
  /\ pc' = [pc EXCEPT !["b"] = "rpuSelect"]
  /\ frame' = [frame EXCEPT
                 !["b"] = NewRecordPriceUpdate(websiteId, newPrice,
                                               newStockStatus, "direct")]
  /\ UNCHANGED <<untouchedByOtherCaller, ret, websites, price_history,
                 last_insert_rowid, sqlite_sequence>>

\* the statements of the other call, each in its turn: the SELECT and the
\* decision (lines 63-84); the UPDATE of the price, the stock and
\* last_checked (lines 86-93); the INSERT INTO price_history (lines
\* 96-102) and the return; the UPDATE of last_checked alone (lines
\* 105-108) and the return
OtherRecordPriceUpdate ==
  \/ /\ pc["b"] = "rpuSelect"
     /\ IF frame["b"].websiteId \notin DOMAIN websites
          THEN /\ pc' = [pc EXCEPT !["b"] = "idle"]
               /\ ret' = [ret EXCEPT !["b"] = RaisedOut("Website not found")]
               /\ frame' = [frame EXCEPT !["b"] = NoFrame]
          ELSE /\ frame' =
                    [frame EXCEPT
                       !["b"].priceChanged =
                          PriceChanged(OldPrice(websites[frame["b"].websiteId]),
                                       frame["b"].newPrice),
                       !["b"].stockChanged =
                          StockChanged(websites[frame["b"].websiteId].stock_status,
                                       frame["b"].newStockStatus),
                       !["b"].priceChangeAmount =
                          frame["b"].newPrice
                            - OldPrice(websites[frame["b"].websiteId]),
                       !["b"].priceChangePercent =
                          PriceChangePercent(
                            OldPrice(websites[frame["b"].websiteId]),
                            frame["b"].newPrice)]
               /\ pc' = [pc EXCEPT
                           !["b"] = IF frame'["b"].priceChanged
                                       \/ frame'["b"].stockChanged
                                      THEN "rpuUpdate" ELSE "rpuTouch"]
               /\ UNCHANGED ret
     /\ UNCHANGED <<untouchedByOtherCaller, websites, price_history,
                    last_insert_rowid, sqlite_sequence>>
  \/ /\ pc["b"] = "rpuUpdate"
     /\ websites' = [websites EXCEPT
                       ![frame["b"].websiteId].price = frame["b"].newPrice,
                       ![frame["b"].websiteId].stock_status =
                          frame["b"].newStockStatus,
                       ![frame["b"].websiteId].last_checked = now]
     /\ pc' = [pc EXCEPT !["b"] = "rpuInsert"]
     /\ UNCHANGED <<untouchedByOtherCaller, frame, ret, price_history,
                    last_insert_rowid, sqlite_sequence>>
  \/ /\ pc["b"] = "rpuInsert"
     /\ price_history' = Append(price_history,
                                HistoryRow(frame["b"].websiteId,
                                           frame["b"].newPrice,
                                           frame["b"].newStockStatus, now))
     /\ last_insert_rowid' = sqlite_sequence.price_history + 1
     /\ sqlite_sequence' = [sqlite_sequence EXCEPT !.price_history = @ + 1]
     /\ pc' = [pc EXCEPT !["b"] = "idle"]
     /\ ret' = [ret EXCEPT !["b"] = RecordPriceUpdateResult(frame["b"])]
     /\ frame' = [frame EXCEPT !["b"] = NoFrame]
     /\ UNCHANGED <<untouchedByOtherCaller, websites>>
  \/ /\ pc["b"] = "rpuTouch"
     /\ websites' = [websites EXCEPT
                       ![frame["b"].websiteId].last_checked = now]
     /\ pc' = [pc EXCEPT !["b"] = "idle"]
     /\ ret' = [ret EXCEPT !["b"] = RecordPriceUpdateResult(frame["b"])]
     /\ frame' = [frame EXCEPT !["b"] = NoFrame]
     /\ UNCHANGED <<untouchedByOtherCaller, price_history, last_insert_rowid,
                    sqlite_sequence>>

\* the time between two cycles: one period of the trigger, or long enough
\* for the listings checked in the last cycle to be stale again
BatchTimePasses ==
  /\ mpc = "idle"
  /\ ticks < MaxTicks
  /\ ticks' = ticks + 1
  /\ \E d \in {CronIntervalHours, DefaultSchedule + CronIntervalHours} :
       now' = now + d
  /\ UNCHANGED <<edits, tableExists, runsTableExists, jobs, runs, pc, call, frame, ret>>
  /\ UNCHANGED <<storeVars, last_insert_rowid, sqlite_sequence>>

\* one product and one listing more than a batch holds, each last checked
\* at an hour of its own, all of them stale
BacklogInit ==
  /\ now = StartHour
  /\ ticks = 0
  /\ edits = 0
  /\ tableExists = FALSE
  /\ runsTableExists = FALSE
  /\ jobs = <<>>
  /\ runs = <<>>
  /\ pc = [w \in Invocations |-> "idle"]
  /\ call = [w \in Invocations |-> NoCall]
  /\ frame = [w \in Invocations |-> NoFrame]
  /\ ret = [w \in Invocations |-> NoRet]
  /\ products = <<ProductRow(2000, 300)>>
  /\ websites = [i \in 1..(ScaledBatchSize + 1) |->
                   WebsiteRow(1, 1000, "In Stock", i - 1)]
  /\ price_history = [i \in 1..(ScaledBatchSize + 1) |->
                        HistoryRow(i, 1000, "In Stock", i - 1)]
  /\ product_alerts = <<>>
  /\ productAlertsTable = FALSE
  /\ alert_history = <<>>
  /\ outbox = <<>>
  /\ suppressed = <<>>
  /\ attempts = <<>>
  /\ route = NoRoute
  /\ spApiCredentials = 1
  /\ spClient = "none"
  /\ appSettings = "key"
  /\ apiKey = NoApiKey
  /\ alertHistoryTable = FALSE
  /\ runResult = "meta"
  /\ last_insert_rowid = 0
  /\ sqlite_sequence = SequenceOf(price_history, alert_history)
  /\ oracleCalls = 0
  /\ calls = 0
  /\ mpc = "idle"
  /\ batch = NoBatch
  /\ loc = NoLoc
  /\ out = NoOut

BacklogNext ==
  \/ StartBatchCycle
  \/ \E newPrice \in OtherObservedPrices :
       StartOtherRecordPriceUpdate(1, newPrice, "In Stock")
  \/ OtherRecordPriceUpdate
  \/ RpuSelect
  \/ RpuUpdate
  \/ RpuInsert
  \/ RpuTouch
  \/ CycleFind
  \/ CycleCleanupPrices
  \/ CycleCleanupAlerts
  \/ BatchTimePasses

\* the trigger keeps calling the cycle, and a cycle that was started goes
\* on to its end
BacklogSpec ==
  /\ BacklogInit
  /\ [][BacklogNext]_vars
  /\ WF_vars(StartBatchCycle)
  /\ WF_vars(BatchCycleGoesOn)

\* ------------------------------- two sendProfitableOpportunityAlert calls
\* A second call, running while the first is at one of its awaits. Its
\* position is pc["b"], its locals are frame["b"] and its result is
\* ret["b"]; the first call is the one of mpc, loc and out. It is made on
\* a new AlertService.
StartOtherSendAlert(productId, websiteId) ==
  /\ pc["b"] = "idle"
  /\ calls < MaxAlertCalls
  /\ calls' = calls + 1
  /\ pc' = [pc EXCEPT !["b"] = "saRecent"]
  /\ frame' = [frame EXCEPT !["b"] = NewSendAlert(productId, websiteId, "direct")]
  /\ ret' = [ret EXCEPT !["b"] = NoRet]
  /\ apiKey' = [apiKey EXCEPT !["b"] = FALSE]
  /\ UNCHANGED <<untouchedByAlerts, last_insert_rowid, sqlite_sequence, product_alerts, productAlertsTable,
                 alert_history, alertHistoryTable, runResult, outbox, suppressed,
                 attempts, mpc, batch, loc, out>>

OtherSendAlert == SendAlertResumes("b")

\* the requests of the two calls are for the listings of the first product
InterleaveNext ==
  \/ \E websiteId \in 1..2 : StartSendAlert(1, websiteId)
  \/ SendAlert
  \/ \E websiteId \in 1..2 : StartOtherSendAlert(1, websiteId)
  \/ OtherSendAlert

InterleaveSpec == AlertInit /\ [][InterleaveNext]_vars


\* ------------------------- the engine and the dispatcher on the same pair
\* The dispatcher's call runs while the engine's call is at one of its
\* awaits, or before it, or after it. The product has a marketplace price
\* and fees stored: 0, and amounts that put the margin and the profit at,
\* below and above their thresholds (40.40 - 31.34 - 3.00 is 15 per cent of
\* 40.40).
AgreePrices == {0, 2000, 4040, 10000}
AgreeFees == {0, 300, 1500}
AgreeSourcingPrices == {1200, 1201, 3134, 7000, 7001}

\* one product and one listing of it
AgreeInit ==
  /\ now = StartHour
  /\ ticks = 0
  /\ edits = 0
  /\ tableExists = FALSE
  /\ runsTableExists = FALSE
  /\ jobs = <<>>
  /\ runs = <<>>
  /\ pc = [w \in Invocations |-> "idle"]
  /\ call = [w \in Invocations |-> NoCall]
  /\ frame = [w \in Invocations |-> NoFrame]
  /\ ret = [w \in Invocations |-> NoRet]
  /\ \E price \in AgreePrices : \E fees \in AgreeFees :
       products = <<ProductRow(price, fees)>>
  /\ \E price \in AgreeSourcingPrices :
       websites = <<WebsiteRow(1, price, "In Stock", 0)>>
  /\ price_history = <<HistoryRow(1, websites[1].price, "In Stock", 0)>>
  /\ product_alerts = <<>>
  /\ productAlertsTable = FALSE
  /\ alert_history = <<>>
  /\ outbox = <<>>
  /\ suppressed = <<>>
  /\ attempts = <<>>
  /\ route = NoRoute
  /\ spApiCredentials = 1
  /\ spClient = "none"
  /\ appSettings \in {"key", "noKey", "noTable"}
  /\ apiKey = NoApiKey
  /\ alertHistoryTable = FALSE
  /\ runResult = "meta"
  /\ last_insert_rowid = 0
  /\ sqlite_sequence = SequenceOf(price_history, alert_history)
  /\ oracleCalls = 0
  /\ calls = 0
  /\ mpc = "idle"
  /\ batch = NoBatch
  /\ loc = NoLoc
  /\ out = NoOut

AgreeNext ==
  \/ StartCalculateProfitability(1, 1)
  \/ CalculateProfitability
  \/ StartSendAlert(1, 1)
  \/ SendAlert
  \/ StartSendAlertAgain(1, 1)
  \/ StartOtherSendAlert(1, 1)
  \/ OtherSendAlert
  \/ StartAlertInitialize
  \/ AlertInitialize
  \/ StartStoreApiKey
  \/ StoreApiKey

AgreeSpec == AgreeInit /\ [][AgreeNext]_vars

\* ----------------------------------------------------------------- claims
\* what processAllDueJobs has pushed to its results so far, or returned
ResultsOf(w) == IF call[w] = NoCall THEN ret[w].results ELSE call[w].results

LastResult(w) == ResultsOf(w)[Len(ResultsOf(w))]

\* a step in which a runJob call made by processAllDueJobs ends
RunJobEnds(w) == Len(ResultsOf(w)') = Len(ResultsOf(w)) + 1

\* a step in which such a call returns (it does not throw)
RunJobReturns(w) == RunJobEnds(w) /\ ~LastResult(w)'.raised

\* C1: when a runJob call returns, after a task that returned or threw, the
\* job's last_run_time is the time of that step and its next_run_time is
\* that time plus interval_hours, the same after success and failure.
C1_RescheduledAtRun ==
  [][\A w \in Invocations :
       RunJobReturns(w) =>
         LET j == frame[w].jobId
         IN /\ jobs'[j].last_run_time = now'
            /\ jobs'[j].next_run_time = now' + jobs[j].interval_hours]_vars

\* a completed run and a failed run, each of a job that was rescheduled
C1_Witness ==
  \E r1, r2 \in DOMAIN runs :
    /\ runs[r1].status = "completed"
    /\ runs[r2].status = "failed"
    /\ \A r \in {r1, r2} :
         LET job == jobs[runs[r].job_id]
         IN /\ job.last_run_time >= runs[r].end_time
            /\ job.next_run_time = job.last_run_time + job.interval_hours

\* C2 as claimed: after a task that threw, next_run_time is the start time
\* of the run plus interval_hours, whatever time passed since the start.
C2_NextRunFromStart ==
  [][\A w \in Invocations :
       (/\ RunJobReturns(w)
        /\ ~LastResult(w)'.success
        /\ frame[w].job_type \in BoundJobTypes) =>
         LET j == frame[w].jobId
         IN jobs'[j].next_run_time =
              runs[frame[w].runId].start_time + jobs[j].interval_hours]_vars

\* C2 as amended: after a task that threw, next_run_time is the time at
\* which the failure is recorded on the job (its new last_run_time, not
\* earlier than the end time and the start time of the run) plus
\* interval_hours.
C2_NextRunFromFailure ==
  [][\A w \in Invocations :
       (RunJobReturns(w) /\ ~LastResult(w)'.success) =>
         LET j == frame[w].jobId
             run == runs'[frame[w].runId]
         IN /\ jobs'[j].next_run_time = jobs'[j].last_run_time + jobs[j].interval_hours
            /\ jobs'[j].last_run_time = now'
            /\ run.start_time <= run.end_time
            /\ run.end_time <= jobs'[j].last_run_time]_vars

\* a failed run whose job is due again later than interval_hours after the
\* start of the run
C2_Witness ==
  \E r \in DOMAIN runs :
    LET job == jobs[runs[r].job_id]
    IN /\ runs[r].status = "failed"
       /\ job.last_run_time >= runs[r].end_time
       /\ job.next_run_time = job.last_run_time + job.interval_hours
       /\ job.next_run_time > runs[r].start_time + job.interval_hours

\* a step that ends a runJob call whose task threw
FailureHandled(w) ==
  /\ pc[w] \in {"closeFailed", "rescheduleFailed"}
  /\ pc'[w] \notin {"closeFailed", "rescheduleFailed"}

\* C3: when the task of a job throws, or its job_type has no task, runJob
\* does not throw: it returns success = false with a non-empty error, and
\* the run it opened is failed, has an end time and a non-empty error.
C3_TaskErrorCaptured ==
  [][\A w \in Invocations :
       FailureHandled(w) =>
         LET run == runs'[frame[w].runId]
         IN /\ RunJobReturns(w)
            /\ ~LastResult(w)'.success
            /\ LastResult(w)'.error \notin {NoText, ""}
            /\ run.status = "failed"
            /\ run.end_time # NULL
            /\ run.error \notin {NoText, ""}]_vars

\* a run of a job without a task and a run whose task threw an error with
\* an empty message were both closed as failed
C3_Witness ==
  \E r1, r2 \in DOMAIN runs :
    /\ jobs[runs[r1].job_id].job_type = UnboundJobType
    /\ runs[r1].status = "failed"
    /\ runs[r1].error = "Unknown job type"
    /\ jobs[runs[r2].job_id].job_type \in BoundJobTypes
    /\ runs[r2].status = "failed"
    /\ runs[r2].error = "Unknown error"
    /\ Quiet

\* C4 as claimed: no job has two runs in status running, also when two
\* invocations overlap.
C4_AtMostOneRunning ==
  \A j \in DOMAIN jobs :
    Cardinality({r \in DOMAIN runs :
                   runs[r].job_id = j /\ runs[r].status = "running"}) <= 1

\* the due jobs of a call, as the claim states them: from the table and the
\* clock at the time of the call
DueAtCall(c) ==
  {j \in DOMAIN c.snapshot :
     /\ c.snapshot[j].status = "active"
     /\ c.snapshot[j].next_run_time <= c.calledAt}

DueJobsAsClaimed(c) ==
  LET n == Len(c.dueJobs)
  IN /\ {c.dueJobs[i] : i \in 1..n} = DueAtCall(c)
     /\ \A i, k \in 1..n :
          i < k => /\ c.dueJobs[i] # c.dueJobs[k]
                   /\ c.snapshot[c.dueJobs[i]].next_run_time
                        <= c.snapshot[c.dueJobs[k]].next_run_time

\* C5: the jobs getDueJobs returns are exactly the active jobs whose
\* next_run_time is not after the clock, in ascending next_run_time;
\* processAllDueJobs returns at once only when no job is active and due;
\* and a step that opens a run for a job, or changes its last_run_time or
\* next_run_time, is taken only for a job that is active and due.
C5_OnlyActiveDueJobsRun ==
  [][/\ \A w \in Invocations :
          /\ call'[w] # NoCall => DueJobsAsClaimed(call'[w])
          /\ (pc[w] = "idle" /\ ret'[w] # ret[w] /\ ret'[w].kind = "counts")
               => ~ \E j \in DOMAIN jobs :
                      jobs[j].status = "active" /\ jobs[j].next_run_time <= now
     /\ \A j \in DOMAIN jobs :
          (\/ jobs'[j].last_run_time # jobs[j].last_run_time
           \/ jobs'[j].next_run_time # jobs[j].next_run_time
           \/ /\ Len(runs') > Len(runs)
              /\ runs'[Len(runs')].job_id = j)
            => /\ jobs[j].status = "active"
               /\ jobs[j].next_run_time <= now]_vars

\* a call is running the job that is due while the other job is paused,
\* overdue and was never run
C5_Witness ==
  \E w \in Invocations : \E j \in DOMAIN jobs :
    /\ call[w] # NoCall
    /\ pc[w] = "task"
    /\ frame[w].jobId # j
    /\ jobs[j].status = "paused"
    /\ jobs[j].next_run_time <= call[w].calledAt
    /\ jobs[j].last_run_time = NULL
    /\ \A r \in DOMAIN runs : runs[r].job_id # j

\* the loop of processAllDueJobs: one result for each due job handled so
\* far, in the order of the due jobs, counted as succeeded or as failed
LoopAsClaimed(c, f) ==
  /\ c.idx \in 1..Len(c.dueJobs)
  /\ Len(c.results) = c.idx - 1
  /\ c.succeeded + c.failed = c.idx - 1
  /\ \A i \in 1..(c.idx - 1) : c.results[i].jobId = c.dueJobs[i]
  /\ f.jobId = c.dueJobs[c.idx]

\* the runs opened since the call began, for the i-th due job
RunsOpenedFor(c, rs, i) ==
  {r \in DOMAIN rs : r >= c.firstRun /\ rs[r].job_id = c.dueJobs[i]}

\* C6: processAllDueJobs calls runJob once for every job that was due, in
\* the order of the due jobs, also after a job whose task threw or whose
\* runJob call threw; it then returns counts with processed = succeeded +
\* failed = the number of due jobs, and one run was opened for every due
\* job whose runJob call did not throw (at most one for the others).
C6_EveryDueJobRunOnce ==
  [][\A w \in Invocations :
       /\ call'[w] # NoCall => LoopAsClaimed(call'[w], frame'[w])
       /\ (call[w] # NoCall /\ pc[w] # "idle" /\ pc'[w] = "idle") =>
            LET c == call[w]
                n == Len(c.dueJobs)
                r == ret'[w]
            IN /\ r.kind = "counts"
               /\ r.processed = n
               /\ r.succeeded + r.failed = n
               /\ Len(r.results) = n
               /\ Cardinality({i \in 1..n : r.results[i].success}) = r.succeeded
               /\ \A i \in 1..n :
                    /\ r.results[i].jobId = c.dueJobs[i]
                    /\ Cardinality(RunsOpenedFor(c, runs', i)) <= 1
                    /\ ~r.results[i].raised
                         => Cardinality(RunsOpenedFor(c, runs', i)) = 1]_vars

\* a call returned the counts of two due jobs: runJob threw for the first
\* and the second was run and completed
C6_Witness ==
  \E w \in Invocations :
    /\ ret[w].kind = "counts"
    /\ ret[w].processed = 2
    /\ ret[w].results[1].raised
    /\ ret[w].results[2].success
    /\ ret[w].succeeded = 1
    /\ ret[w].failed = 1
    /\ runs[Len(runs)].job_id = ret[w].results[2].jobId
    /\ runs[Len(runs)].status = "completed"

\* C7: two runs of a job that processAllDueJobs started are at least
\* interval_hours apart, whether the earlier one completed or failed.
C7_RunsAnIntervalApart ==
  \A r1, r2 \in DOMAIN runs :
    (/\ r1 < r2
     /\ runs[r1].job_id = runs[r2].job_id
     /\ runs[r1].via = "batch"
     /\ runs[r2].via = "batch")
      => runs[r2].start_time
           >= runs[r1].start_time + jobs[runs[r1].job_id].interval_hours

\* a job was run again after a run that failed
C7_Witness ==
  \E r1, r2 \in DOMAIN runs :
    /\ r1 < r2
    /\ runs[r1].job_id = runs[r2].job_id
    /\ runs[r1].status = "failed"
    /\ runs[r1].via = "batch"
    /\ runs[r2].via = "batch"

\* how often a job was executed
Executions(j) == Cardinality({r \in DOMAIN runs : runs[r].job_id = j})

\* the bounds of the model end the behaviour: the clock stops before the
\* job is due again, or no row is left for the runs of the due jobs
OutOfTime(j) ==
  /\ ticks = MaxTicks
  /\ j \in DOMAIN jobs
  /\ jobs[j].last_run_time # NULL
  /\ now < jobs[j].last_run_time + jobs[j].interval_hours

OutOfRows == Len(runs) + Cardinality(DueIds(jobs, now)) > MaxRuns

\* C8: while processAllDueJobs keeps being invoked and the clock advances,
\* a job that has been executed k times is executed again, also after runs
\* that failed (unless the bounds of the model end the behaviour first).
C8_ExecutedAgain ==
  \A j \in 1..2 : \A k \in 1..MaxRuns :
    (Executions(j) = k) ~> (Executions(j) > k \/ OutOfTime(j) \/ OutOfRows)

\* a job was executed again after a run that failed, and is rescheduled
C8_Witness ==
  \E r1, r2 \in DOMAIN runs :
    /\ r1 < r2
    /\ runs[r1].job_id = runs[r2].job_id
    /\ runs[r1].status = "failed"
    /\ runs[r2].status \in {"completed", "failed"}
    /\ jobs[runs[r2].job_id].last_run_time >= runs[r2].end_time
    /\ Quiet

\* C9 as claimed: a run in status running is going to be closed. Only the
\* invocation that opened a run writes to it, so some invocation is at the
\* task of that run or at the statement that closes it.
C9_OpenRunsGetClosed ==
  \A r \in DOMAIN runs :
    runs[r].status = "running" =>
      \E w \in Invocations :
        /\ frame[w].runId = r
        /\ pc[w] \in TaskPcs \cup {"closeCompleted", "closeFailed"}

\* the jobs of the bootstrap, as the claim states them
DefaultJobsAsClaimed(js) ==
  /\ \A type \in BoundJobTypes :
       Cardinality({j \in DOMAIN js : js[j].job_type = type}) = 1
  /\ \A j \in DOMAIN js :
       /\ js[j].job_type = "monitoring_cycle" => js[j].interval_hours = 24
       /\ js[j].job_type = "data_cleanup" => js[j].interval_hours = 168

\* C10: a bootstrap that finds no job creates the two default jobs,
\* monitoring_cycle every 24 hours and data_cleanup every 168 hours, both
\* active; a bootstrap that finds jobs adds none; after every bootstrap
\* there is one job of each of the two types.
C10_BootstrapOnce ==
  [][\A w \in Invocations :
       /\ ret'[w].kind = "initialized" => DefaultJobsAsClaimed(jobs')
       /\ (pc[w] = "insertCleanup" /\ pc'[w] = "idle") =>
            /\ Len(jobs') = 2
            /\ \A j \in 1..2 : jobs'[j].status = "active"
            /\ ret'[w].kind = "initialized"
       /\ (/\ pc[w] = "idle"
            /\ Len(jobs) > 0
            /\ ret'[w] # ret[w]
            /\ ret'[w].kind = "initialized")
            => jobs' = jobs /\ pc'[w] = "idle"]_vars

\* a bootstrap returned on a store whose jobs have already been run
C10_Witness ==
  \E w \in Invocations :
    /\ ret[w].kind = "initialized"
    /\ Len(runs) > 0
    /\ Len(jobs) = 2
    /\ pc[w] = "idle"

\* ----------------------------------------------------- claims C11 to C14
\* the decision on the price as the specification states it: both the
\* amount and the percentage against the stored price reach their
\* thresholds, the percentage being 0 when the stored price is 0
PriceChangeAsClaimed(stored, observed) ==
  /\ Abs(observed - stored) >= 100
  /\ stored > 0
  /\ Abs(observed - stored) * 100 >= 5 * stored

\* what recordPriceUpdate decided, against the stored and the observed price
DecisionAsClaimed(priceChanged, stored, observed) ==
  /\ priceChanged <=> PriceChangeAsClaimed(stored, observed)
  /\ (stored = 2000 /\ observed = 2100) => priceChanged
  /\ (stored = 10000 /\ observed = 10100) => ~priceChanged

\* recordPriceUpdate has read the listing and decided
Decided == loc.op = "recordPriceUpdate" /\ mpc \in {"rpuUpdate", "rpuInsert", "rpuTouch"}

\* C11: recordPriceUpdate reports priceChanged = true if and only if the
\* absolute difference between the observed and the stored price is at
\* least 1.00 and the percentage change against the stored price is at
\* least 5, both bounds inclusive: +1.00 on 20.00 is a price change, +1.00
\* on 100.00 is not.
C11_PriceChangedIffBoth ==
  /\ Decided => DecisionAsClaimed(loc.priceChanged, OldPrice(loc.before), loc.newPrice)
  /\ out.kind = "recordPriceUpdate" =>
       DecisionAsClaimed(out.priceChanged, OldPrice(out.before), out.newPrice)

\* C12: recordPriceUpdate reports stockChanged = true exactly when the
\* observed in-stock/out-of-stock value differs from the stored one,
\* whatever the prices are.
C12_StockChangedIffFlip ==
  out.kind = "recordPriceUpdate" =>
    (out.stockChanged <=>
       determineStockStatus(out.newStockStatus)
         # determineStockStatus(out.before.stock_status))

\* a step in which recordPriceUpdate makes its last statement and returns
RecordPriceUpdateReturns == mpc \in {"rpuInsert", "rpuTouch"} /\ mpc' # mpc

\* recordPriceUpdate found the price change or the stock change material
Material(l) == l.priceChanged \/ l.stockChanged

\* C13: when recordPriceUpdate finds the price change or the stock change
\* material, the listing holds the observed price and stock at its return,
\* its last_checked is the time of the update, and exactly one row was
\* appended to price_history, for that listing, with the observed values.
C13_MaterialChangeRecorded ==
  [][(RecordPriceUpdateReturns /\ Material(loc)) =>
       /\ websites'[loc.websiteId].price = loc.newPrice
       /\ websites'[loc.websiteId].stock_status = loc.newStockStatus
       /\ websites'[loc.websiteId].last_checked \in loc.at..now
       /\ Len(price_history) = loc.events
       /\ Len(price_history') = loc.events + 1
       /\ SubSeq(price_history', 1, loc.events) = price_history
       /\ LET event == price_history'[loc.events + 1]
          IN /\ event.website_id = loc.websiteId
             /\ event.price = loc.newPrice
             /\ event.stock_status = loc.newStockStatus
             /\ event.recorded_at = now]_vars

\* a material price change was recorded: the listing holds the observed
\* price and the second row of price_history carries it
C13_Witness ==
  /\ out.kind = "recordPriceUpdate"
  /\ out.priceChanged
  /\ ~out.stockChanged
  /\ websites[1].price = out.newPrice
  /\ websites[1].price # out.before.price
  /\ Len(price_history) = 2
  /\ price_history[2].price = out.newPrice

\* C14: when recordPriceUpdate finds neither change material, it changes
\* only the last_checked of the listing: the stored price, the stored stock
\* status and price_history are as they were.
C14_OnlyLastChecked ==
  [][(RecordPriceUpdateReturns /\ ~Material(loc)) =>
       /\ websites' = [websites EXCEPT ![loc.websiteId].last_checked = now]
       /\ websites[loc.websiteId].price = loc.before.price
       /\ websites[loc.websiteId].stock_status = loc.before.stock_status
       /\ price_history' = price_history
       /\ Len(price_history) = loc.events
       /\ products' = products]_vars

\* an observed price that differs from the stored one without being
\* material left the price and the history alone and moved last_checked
C14_Witness ==
  /\ out.kind = "recordPriceUpdate"
  /\ ~out.priceChanged
  /\ ~out.stockChanged
  /\ out.newPrice # out.before.price
  /\ websites[1].price = out.before.price
  /\ websites[1].last_checked >= StartHour
  /\ Len(price_history) = 1

\* ----------------------------------------------------- claims C16 to C19
\* a result of calculateProfitability carries the profit and the margin
\* that the specification states for its price, fees and sourcing price
ProfitAndMarginAsClaimed(r) ==
  /\ r.profit = r.amazonPrice - r.sourcingPrice - r.fees
  /\ r.margin.den > 0
  /\ IF r.amazonPrice > 0
       THEN r.margin.num * r.amazonPrice = r.profit * 100 * r.margin.den
       ELSE r.margin.num = 0

\* C16 as stated: for every marketplace price, fees and sourcing price,
\* the evaluation returns profit = marketplacePrice - sourcingPrice - fees
\* and marginPercent = profit / marketplacePrice * 100, or 0 when the
\* marketplace price is 0, which is a result and not an error.
C16_EveryPriceEvaluated ==
  /\ out.kind = "calculateProfitability" => ProfitAndMarginAsClaimed(out)
  /\ out.kind = "raised" => out.error # "No valid price found"

\* C16 as amended: every result that calculateProfitability returns has a
\* marketplace price above 0, profit = marketplacePrice - sourcingPrice -
\* fees and marginPercent = profit / marketplacePrice * 100; a marketplace
\* price of 0 is answered by the error 'No valid price found'.
C16_ProfitAndMargin ==
  /\ out.kind = "calculateProfitability" =>
       /\ out.amazonPrice > 0
       /\ ProfitAndMarginAsClaimed(out)
  /\ (mpc = "cpFees" \/ mpc = "cpUpdate") => loc.amazonPrice > 0

\* the oracle's price 100.00 and fees 15.00 against a listing at 70.00: a
\* profit of 15.00 and a margin of 15
C16_Witness ==
  /\ out.kind = "calculateProfitability"
  /\ ~out.cached
  /\ out.amazonPrice = 10000
  /\ out.fees = 1500
  /\ out.sourcingPrice = 7000
  /\ out.profit = 1500
  /\ out.margin = [num |-> 15, den |-> 1]

\* C17: isProfitable is true if and only if marginPercent >= 15 and
\* profit >= 5.00; a value exactly at a threshold counts, and meeting only
\* one of the two thresholds is not enough.
C17_ProfitableIffBoth ==
  out.kind = "calculateProfitability" =>
    LET profit == out.amazonPrice - out.sourcingPrice - out.fees
    IN /\ out.isProfitable <=>
            /\ out.amazonPrice > 0
            /\ profit * 100 >= 15 * out.amazonPrice
            /\ profit >= 500
       /\ (out.amazonPrice = 2000 /\ out.fees = 300) =>
            /\ out.sourcingPrice = 1200 => out.isProfitable
            /\ out.sourcingPrice = 1300 => ~out.isProfitable

\* C18: once calculateProfitability has stored an oracle's price and fees
\* on a product, a later calculateProfitability for that product makes no
\* call to the oracle and leaves the stored price and fees unchanged,
\* whatever the oracle returned, fees of 0 included.
C18_CachedForGood ==
  [][\A p \in DOMAIN products :
       products[p].filled =>
         /\ products'[p] = products[p]
         /\ (loc.op = "calculateProfitability" /\ loc.productId = p) =>
              oracleCalls' = oracleCalls]_vars

\* a step in which calculateProfitabilityForAllProducts ends
BackfillEnds == batch.op = "backfill" /\ batch'.op # "backfill"

\* C19: in calculateProfitabilityForAllProducts an oracle error for one
\* product does not abort the batch: the call returns counts, every
\* selected pair was evaluated, and processed = profitable + unprofitable.
C19_BackfillCountsAll ==
  [][BackfillEnds =>
       /\ out'.kind = "calculateProfitabilityForAllProducts"
       /\ out'.processed = Len(batch.items)
       /\ out'.processed = out'.profitable + out'.unprofitable
       /\ Len(out'.results) = Len(batch.items)
       /\ \A k \in DOMAIN batch.items :
            out'.results[k].websiteId = batch.items[k]]_vars

\* the first pair of a batch met an oracle error and a later pair was
\* evaluated and found profitable
C19_Witness ==
  /\ out.kind = "calculateProfitabilityForAllProducts"
  /\ out.processed >= 2
  /\ out.results[1].raised
  /\ ~out.results[2].raised
  /\ out.profitable >= 1
  /\ out.unprofitable >= 1
  /\ oracleCalls >= 3

\* ------------------------------------------------------ claims C15 and C20
\* recordPriceUpdate is about to read a listing whose stored price and
\* stock text are the observed ones
ObservedAsStored ==
  /\ mpc = "rpuSelect"
  /\ loc.websiteId \in DOMAIN websites
  /\ loc.newPrice = websites[loc.websiteId].price
  /\ loc.newStockStatus = websites[loc.websiteId].stock_status

\* a message for the product was accepted less than the window ago
AlertedWithinWindow(productId) ==
  \E i \in DOMAIN outbox :
    /\ outbox[i].product_id = productId
    /\ now - outbox[i].at < 24

\* the accepted messages of a product
MailsOf(box, productId) ==
  {i \in DOMAIN box : box[i].product_id = productId}

\* the rows of product_alerts of a product
RecordsOf(table, productId) ==
  {i \in DOMAIN table : table[i].product_id = productId}

\* C15: a monitoring pass over a listing whose observed price and stock
\* equal the stored ones appends no row to price_history, and while a
\* message for a product was accepted within the last 24 hours no step of
\* the alert dispatch sends a message for that product again or writes a
\* row of product_alerts beyond the one of each message.
C15_SecondPassIsQuiet ==
  [][/\ ObservedAsStored =>
          /\ mpc' \in {"rpuSelect", "rpuTouch"}
          /\ price_history' = price_history
     /\ batch.op = "runMonitoringCycle" =>
          /\ price_history' = price_history
          /\ mpc = "rpuSelect" => ObservedAsStored
     /\ \A p \in DOMAIN products :
          AlertedWithinWindow(p) =>
            /\ MailsOf(outbox', p) = MailsOf(outbox, p)
            /\ Cardinality(RecordsOf(product_alerts', p))
                 <= Cardinality(MailsOf(outbox, p))]_vars

\* a product was alerted, a monitoring pass then checked its listings, and
\* the dispatch over all opportunities that followed passed the product
\* over: one message, one row of product_alerts, no new row of price_history
C15_Witness ==
  /\ out.kind = "sendAllProfitableOpportunityAlerts"
  /\ out.sent = 0
  /\ out.failed = 0
  /\ out.skipped >= 1
  /\ Len(outbox) = 1
  /\ Len(product_alerts) = 1
  /\ Len(price_history) = 3
  /\ websites[1].last_checked > product_alerts[1].created_at
  /\ now - product_alerts[1].created_at < MinTimeBetweenAlerts

\* the request that returned found, when it looked, a row of
\* product_alerts of its product less than 24 hours old
RecordWithinWindow(o) ==
  \E i \in 1..o.records :
    /\ product_alerts[i].product_id = o.productId
    /\ o.checkedAt - product_alerts[i].created_at < 24

\* C20: two rows of product_alerts of a product, and two accepted messages
\* for it, are never less than 24 hours apart; a request for a profitable
\* pair whose product has a row less than 24 hours old sends nothing and
\* writes nothing, and a request with no such row whose message the
\* transport accepts sends one message and writes one row.
C20_AlertDedupOverTime ==
  /\ \A i, j \in DOMAIN product_alerts :
       (i < j /\ product_alerts[i].product_id = product_alerts[j].product_id) =>
         product_alerts[j].created_at - product_alerts[i].created_at >= 24
  /\ \A i, j \in DOMAIN outbox :
       (/\ i < j
        /\ outbox[i].product_id \in DOMAIN products
        /\ outbox[i].product_id = outbox[j].product_id) =>
         outbox[j].at - outbox[i].at >= 24
  /\ out.kind = "sendProfitableOpportunityAlert" =>
       /\ RecordWithinWindow(out) =>
            /\ ~out.success
            /\ Len(product_alerts) = out.records
            /\ Len(outbox) = out.mails
       /\ (/\ ~RecordWithinWindow(out)
           /\ out.productId \in DOMAIN products
           /\ websites[out.websiteId].product_id = out.productId
           /\ SqlProfitable(products[out.productId], websites[out.websiteId],
                            15, 500)
           /\ out.transport \notin {"noKey", "failed"}) =>
            /\ out.success
            /\ Len(product_alerts) = out.records + 1
            /\ product_alerts[out.records + 1].product_id = out.productId
            /\ product_alerts[out.records + 1].created_at \in out.checkedAt..now
            /\ Len(outbox) = out.mails + 1
            /\ outbox[out.mails + 1].product_id = out.productId

\* the first product was alerted at hour 48, a request at hour 60 was
\* suppressed, and the request at hour 72 sent the second message and
\* wrote the second row
C20_Witness ==
  /\ out.kind = "sendProfitableOpportunityAlert"
  /\ out.success
  /\ out.productId = 1
  /\ Len(product_alerts) = 2
  /\ product_alerts[1] = ProductAlertRow(1, "opportunity", StartHour)
  /\ product_alerts[2] = ProductAlertRow(1, "opportunity", StartHour + 24)
  /\ suppressed = <<[product_id |-> 1, at |-> StartHour + 12]>>
  /\ Len(outbox) = 2

\* ---------------------------------------------------- claims C21 to C24
\* the requests the transport accepted for a product
AcceptedFor(productId) ==
  {i \in DOMAIN attempts :
     attempts[i].accepted /\ attempts[i].product_id = productId}

\* C21: the dedup key is the product: two messages the transport accepted
\* for one product are never less than 24 hours apart, whether they are
\* for the same listing or for two of its listings, and whether they are
\* of two calls or of one sendAllProfitableOpportunityAlerts call.
C21_OneAlertPerProduct ==
  \A p \in DOMAIN products :
    \A i, j \in AcceptedFor(p) :
      i < j => attempts[j].at - attempts[i].at >= 24

\* one sendAllProfitableOpportunityAlerts call selected the two profitable
\* listings of the first product, sent the alert for the first of them and
\* passed the second over
C21_Witness ==
  /\ out.kind = "sendAllProfitableOpportunityAlerts"
  /\ out.sent = 1
  /\ out.skipped = 1
  /\ out.failed = 0
  /\ Len(attempts) = 1
  /\ attempts[1].accepted
  /\ attempts[1].website_id = 1
  /\ suppressed = <<[product_id |-> 1, at |-> attempts[1].at]>>
  /\ SqlProfitable(products[1], websites[2], 15, 500)

\* the per-opportunity alerts the transport accepted, in order
AcceptedAlerts ==
  SelectSeq(attempts, LAMBDA a : a.accepted /\ a.product_id # NULL)

\* a per-opportunity alert is between the acceptance of its message and
\* the INSERT INTO product_alerts that follows it
AcceptedNotYetRecorded ==
  /\ mpc \in {"saLogProbe", "saLogCreate", "saLogInsert", "saRecord",
              "saRecordCreate", "saRecordInsert"}
  /\ loc.op = "sendProfitableOpportunityAlert"

\* the rows of product_alerts, in order, name the products of the accepted
\* requests, in order
RecordsFollowAccepted(n) ==
  LET accepted == AcceptedAlerts
  IN /\ Len(product_alerts) = n
     /\ n <= Len(accepted)
     /\ \A k \in 1..n :
          /\ product_alerts[k].product_id = accepted[k].product_id
          /\ product_alerts[k].alert_type = "opportunity"
          /\ product_alerts[k].created_at >= accepted[k].at

\* C22: product_alerts has one row for each request the transport
\* accepted, for the product of that request, and none for a request it
\* refused; only between the acceptance and the INSERT that follows it is
\* the last row missing. A call whose request was refused returns false.
C22_RecordIffSent ==
  LET accepted == AcceptedAlerts
  IN /\ RecordsFollowAccepted(IF AcceptedNotYetRecorded
                               THEN Len(accepted) - 1 ELSE Len(accepted))
     /\ out.kind = "sendProfitableOpportunityAlert" =>
          /\ out.transport = "failed" =>
               (~out.success /\ Len(product_alerts) = out.records)
          /\ out.success <=> out.transport = "accepted"

\* the alert of the first product was sent and recorded, and a later
\* request that the transport refused returned false and left the one row
C22_Witness ==
  /\ out.kind = "sendProfitableOpportunityAlert"
  /\ out.transport = "failed"
  /\ ~out.success
  /\ Len(attempts) = 2
  /\ attempts[1].accepted
  /\ ~attempts[2].accepted
  /\ Len(product_alerts) = 1
  /\ product_alerts[1].product_id = attempts[1].product_id

\* a step in which sendAllProfitableOpportunityAlerts returns
SendAllEnds == batch.op = "sendAll" /\ batch'.op # "sendAll"

\* an alert request for the product was passed over on account of a row of
\* product_alerts less than 24 hours old
PassedOverForRecord(productId, passed, records) ==
  \E s \in DOMAIN passed :
    /\ passed[s].product_id = productId
    /\ \E r \in DOMAIN records :
         /\ records[r].product_id = productId
         /\ records[r].created_at <= passed[s].at
         /\ passed[s].at - records[r].created_at < 24

\* C23: within one call a listing is handed to the transport at most once,
\* accepted or not, and when sendAllProfitableOpportunityAlerts returns, the
\* product of every pair it selected was handed to the transport in that
\* call unless an alert sent less than 24 hours before kept it back: a
\* refused request keeps nothing back.
C23_FailureRetriedNextCycle ==
  [][/\ \A i, j \in DOMAIN attempts' :
          (i < j /\ attempts'[i].website_id = attempts'[j].website_id) =>
            attempts'[i].call # attempts'[j].call
     /\ SendAllEnds =>
          \A k \in DOMAIN batch.items :
            LET p == websites[batch.items[k]].product_id
            IN \/ \E a \in DOMAIN attempts' :
                    attempts'[a].call = calls /\ attempts'[a].product_id = p
               \/ PassedOverForRecord(p, suppressed', product_alerts')]_vars

\* the transport refused the alert of the first listing in one call, and
\* the next call handed the same listing to the transport again
C23_Witness ==
  /\ out.kind = "sendAllProfitableOpportunityAlerts"
  /\ Len(attempts) >= 3
  /\ attempts[1].website_id = 1
  /\ ~attempts[1].accepted
  /\ attempts[2].website_id = 2
  /\ ~attempts[2].accepted
  /\ attempts[2].call = attempts[1].call
  /\ attempts[3].website_id = 1
  /\ attempts[3].call = attempts[1].call + 1
  /\ attempts[3].accepted

\* the dispatcher's call and the engine's call on the pair have both
\* returned, and the dispatcher came to its threshold check
BothJudged ==
  /\ ret["b"].kind = "sendProfitableOpportunityAlert"
  /\ ~ret["b"].recent
  /\ out.kind = "calculateProfitability"

\* C24: on the same product and listing the threshold check of
\* sendProfitableOpportunityAlert passes if and only if
\* calculateProfitability reports isProfitable, whatever the marketplace
\* price, the fees and the sourcing price are, a marketplace price of 0 and
\* values at a threshold included.
C24_DispatcherAgreesWithEngine ==
  BothJudged => (ret["b"].profitable <=> out.isProfitable)

\* as long as no call is made to the oracle the two agree: they compute
\* the same doubles from the same stored numbers
AgreeOnStoredNumbers ==
  (BothJudged /\ oracleCalls = 0) => (ret["b"].profitable <=> out.isProfitable)

\* ------------------------------------------------------------- claim C25
\* the number of stages the route has called
StagesCalled == Len(route.log)

\* C25: the cron route calls initialize, due-job processing, the monitoring
\* cycle, the profitability backfill and the alert dispatch in this order,
\* and each has finished before the next starts: the scheduler and the
\* services are never at work at the same time nor outside their stage,
\* the results of a stage are there when the next one is called, and
\* nothing of a stage is there before it is called.
C25_StagesInOrder ==
  /\ route.log = SubSeq(RouteStages, 1, StagesCalled)
  /\ route.stage \in {"none", "done", "failed"} =>
       (pc["a"] = "idle" /\ mpc = "idle")
  /\ pc["a"] # "idle" =>
       /\ mpc = "idle"
       /\ route.stage = IF pc["a"] \in {"createTables", "createRunsTable",
                                       "insertMonitoring", "insertCleanup"}
                          THEN "initialize" ELSE "jobs"
  /\ mpc # "idle" =>
       /\ pc["a"] = "idle"
       /\ batch.op = "runMonitoringCycle" => route.stage = "monitoring"
       /\ batch.op = "backfill" => route.stage = "profitability"
       /\ batch.op = "sendAll" => route.stage = "alerts"
       /\ batch.op \in {"runMonitoringCycle", "backfill", "sendAll"}
  /\ StagesCalled >= 2 => (tableExists /\ Len(jobs) = 2)
  /\ StagesCalled <= 2 =>
       (runs = <<>> \/ route.stage = "jobs") /\ calls = 0
  /\ StagesCalled >= 3 => ret["a"].kind = "counts"
  /\ StagesCalled <= 3 => (oracleCalls = 0 /\ calls <= 1)
  /\ StagesCalled >= 4 =>
       \A i \in DOMAIN websites : websites[i].last_checked = StartHour
  /\ StagesCalled <= 4 => (attempts = <<>> /\ calls <= 2)
  /\ StagesCalled >= 5 => (oracleCalls >= 1 /\ calls >= 2)
  /\ route.stage = "done" =>
       (out.kind = "sendAllProfitableOpportunityAlerts" /\ calls = 3)

\* the route has responded after a due job was run, the three listings
\* were checked, the second product got its price from the oracle and the
\* alerts of both products were sent
C25_Witness ==
  /\ route.stage = "done"
  /\ route.log = RouteStages
  /\ Len(runs) = 1
  /\ ret["a"].processed = 1
  /\ \A i \in DOMAIN websites : websites[i].last_checked = StartHour
  /\ products[2].amazon_price = 10000
  /\ out.kind = "sendAllProfitableOpportunityAlerts"
  /\ out.sent = 2
  /\ Len(outbox) = 2

\* ---------------------------------------------------------------- C26
\* the ASINs of a table of products, and of an uploaded file
AsinsOf(table) == {table[i].asin : i \in DOMAIN table}

\* C26: ingestion is idempotent by ASIN. In every state no two products
\* have the same ASIN; and when processAsinCsv returns, every ASIN of the
\* file has exactly one product, the products that were there at the call
\* are there unchanged, the products added are exactly the ASINs of the
\* file that were absent, as many as the count returned, and a file whose
\* ASINs were all present leaves the table as it was.
C26_IngestionIdempotent ==
  /\ \A i, j \in DOMAIN products :
       products[i].asin = products[j].asin => i = j
  /\ (out.kind = "processAsinCsv" /\ out.success) =>
       /\ AsinsOf(out.records) \subseteq AsinsOf(products)
       /\ Len(products) >= Len(out.before)
       /\ SubSeq(products, 1, Len(out.before)) = out.before
       /\ AsinsOf(products) = AsinsOf(out.before) \cup AsinsOf(out.records)
       /\ out.asinsProcessed = Len(products) - Len(out.before)
       /\ (AsinsOf(out.records) \subseteq AsinsOf(out.before)
             => products = out.before)
  /\ (out.kind = "processAsinCsv" /\ ~out.success) => products = out.before

\* the file with the same ASIN twice was ingested twice: the second call
\* added nothing to the one product of the first
C26_Witness ==
  /\ calls = 2
  /\ mpc = "idle"
  /\ out.kind = "processAsinCsv"
  /\ out.success
  /\ out.records = <<CsvRecord("B001", "012345678905", "Widget"),
                   CsvRecord("B001", "036000291452", "")>>
  /\ out.asinsProcessed = 0
  /\ products = <<IngestedProductRow("B001", "012345678905", "Widget")>>
  /\ out.before = products

\* ---------------------------------------------------------------- C27
\* C27: a fact without a parsable price never becomes a listing, and the
\* listings of a product are deduplicated by site and listing URL: in
\* every state every stored listing has a price, and no two stored
\* listings of one product have the same site and the same listing URL.
C27_ListingsDeduplicated ==
  /\ \A i \in DOMAIN websites : Truthy(websites[i].price)
  /\ \A i, j \in DOMAIN websites :
       (/\ websites[i].product_id = websites[j].product_id
        /\ websites[i].website_url = websites[j].website_url
        /\ websites[i].product_url = websites[j].product_url) => i = j

\* ---------------------------------------------------------------- C28
\* the rows of price_history of a listing
HistoryOf(i) == {k \in DOMAIN price_history : price_history[k].website_id = i}

\* C28: every stored listing has at least one history event. Stated for the
\* states in which no operation is under way (between the insert of a
\* listing and the insert of its first history row there is none yet):
\* whenever the services and runJob are idle, every listing has a row of
\* price_history.
C28_ListingHasHistory ==
  (mpc = "idle" /\ pc["a"] = "idle") =>
    \A i \in DOMAIN websites : HistoryOf(i) # {}

\* ---------------------------------------------------------------- C29
\* the rows of a table, dated by at, that are older than days at hour t
OlderThan(dates, days, t) ==
  {k \in DOMAIN dates : dates[k] < t - days * OneDayHours}

PriceHistoryDates == [k \in DOMAIN price_history |-> price_history[k].recorded_at]
ProductAlertDates == [k \in DOMAIN product_alerts |-> product_alerts[k].created_at]

\* the rows of a table that are not older than days at hour t
NotOlder(table, dates, days, t) ==
  SelectSeq([k \in DOMAIN table |-> [row |-> table[k], at |-> dates[k]]],
            LAMBDA r : ~(r.at < t - days * OneDayHours))

\* a step of cleanupOldData keeps every row of price_history that is not
\* older than 90 days and every row of product_alerts that is not older
\* than 30 days, and its last step leaves no older row of either
SweepKeepsAndPrunes ==
  mpc \in {"cycleCleanupPrices", "cycleCleanupAlerts"} =>
    /\ NotOlder(price_history, PriceHistoryDates, PriceHistoryDays, now)
         = NotOlder(price_history', PriceHistoryDates', PriceHistoryDays, now)
    /\ NotOlder(product_alerts, ProductAlertDates, AlertHistoryDays, now)
         = NotOlder(product_alerts', ProductAlertDates', AlertHistoryDays, now)
    /\ (mpc = "cycleCleanupAlerts" /\ mpc' = "idle") =>
         /\ OlderThan(PriceHistoryDates', PriceHistoryDays, now') = {}
         /\ OlderThan(ProductAlertDates', AlertHistoryDays, now') = {}

\* C29: the retention sweep. No step of cleanupOldData deletes a row of
\* price_history that is not older than 90 days or a row of product_alerts
\* that is not older than 30 days, and when it returns no row of
\* price_history older than 90 days and no row of product_alerts older
\* than 30 days is left.
C29_RetentionSweep == [][SweepKeepsAndPrunes]_vars

\* ---------------------------------------------------------------- C30
\* what each piece of stock text says: "out" when it holds an out-of-stock
\* phrase ('Unavailable' and 'Not available' hold 'available' too), "in"
\* when it holds an in-stock phrase and no out-of-stock phrase, "none"
\* when it is empty or holds neither
StockFragmentSays ==
  [f \in StockFragments |->
     IF f \in {"Out of Stock", "SOLD OUT", "Unavailable",
               "Currently unavailable", "Not available",
               "No longer available", "out-of-stock"} THEN "out"
     ELSE IF f \in {"In Stock", "Available", "Add to Cart", "Buy Now",
                    "in-stock", "Ships in 2 days"} THEN "in"
     ELSE "none"]

\* C30: a stock text is classified out of stock when it contains an
\* out-of-stock phrase, even if it also contains an in-stock phrase; in
\* stock when it contains an in-stock phrase and no out-of-stock phrase;
\* and out of stock when it is empty or contains neither.
C30_StockClassification ==
  out.kind = "extractProductData" =>
    LET says == {StockFragmentSays[out.parts[k]] : k \in 1..2}
    IN /\ "out" \in says => ~out.inStock
       /\ ("in" \in says /\ "out" \notin says) => out.inStock
       /\ says = {"none"} => ~out.inStock

\* 'Unavailable, In Stock' holds phrases of both lists and was classified
\* out of stock
C30_Witness ==
  /\ out.kind = "extractProductData"
  /\ out.stockStatus = "Unavailable, In Stock"
  /\ ~out.inStock

\* ---------------------------------------------------------------- C31
\* a monitoring cycle returns
CycleReturns == mpc = "cycleCleanupAlerts" /\ mpc' = "idle"

\* when the monitoring cycle of a six-hourly invocation returns, every
\* stored listing has been checked in it: none was last checked six hours
\* ago or earlier
EveryListingRechecked ==
  CycleReturns =>
    \A i \in DOMAIN websites' :
      websites'[i].last_checked > now' - CronIntervalHours

\* C31: every stored listing is checked every 6 hours: at each six-hourly
\* invocation of the cron entry point every stored listing is re-checked
\* (its last_checked is advanced).
C31_RecheckedEverySixHours == [][EveryListingRechecked]_vars

\* ---------------------------------------------------------------- C32
\* a step leaves the status of every run that is completed or failed as
\* it is, and the first status of a run is running
RunStatusIsFinal ==
  /\ \A r \in DOMAIN runs :
       /\ r \in DOMAIN runs'
       /\ runs[r].status \in {"completed", "failed"} =>
            runs'[r].status = runs[r].status
       /\ runs[r].status = "running" =>
            runs'[r].status \in {"running", "completed", "failed"}
  /\ \A r \in DOMAIN runs' \ DOMAIN runs : runs'[r].status = "running"

\* C32: a run only moves from running to completed or from running to
\* failed: once it is completed or failed its status never changes again,
\* also when a statement after the task is rejected by the store.
C32_RunStatusFinal == [][RunStatusIsFinal]_vars

\* ---------------------------------------------------------------- C33
\* C33: in every state, every job that has been run at least once (its
\* last_run_time is set) has a next_run_time, and it is not earlier than
\* its last_run_time.
C33_NextRunNotBeforeLastRun ==
  \A j \in DOMAIN jobs :
    jobs[j].last_run_time # NULL =>
      /\ jobs[j].next_run_time # NULL
      /\ jobs[j].next_run_time >= jobs[j].last_run_time

\* the monitoring job was run at hour 24, its run failed, and it is due a
\* day later
C33_Witness ==
  /\ Len(jobs) >= 1
  /\ jobs[1].last_run_time = 24
  /\ jobs[1].next_run_time = 24 + MonitoringIntervalHours
  /\ \E r \in DOMAIN runs : runs[r].job_id = 1 /\ runs[r].status = "failed"

\* ---------------------------------------------------------------- C34
\* the percentage returned is the change against the price that was
\* stored, and 0 when that price was 0
PercentAgainstStoredPrice ==
  out.kind = "recordPriceUpdate" =>
    LET old == out.before.price
        percent == out.priceChangePercent
    IN /\ percent.den > 0
       /\ old = 0 => percent.num = 0
       /\ old > 0 =>
            percent.num * old = 100 * (out.newPrice - old) * percent.den

\* no step of a call for a listing that exists ends the call with an error
ReturnsForListing ==
  (loc.op = "recordPriceUpdate" /\ loc.websiteId \in DOMAIN websites) =>
    out'.kind # "raised"

\* C34: the percentage recordPriceUpdate returns is computed against the
\* price that was stored, and is 0 whenever the stored price was 0,
\* whatever the new price; and recordPriceUpdate does not fail on a stored
\* price of 0 (no call for a listing that exists ends with an error).
C34_PercentAgainstStoredPrice ==
  [][PercentAgainstStoredPrice' /\ ReturnsForListing]_vars

\* a listing stored at 0 was observed at 21.00: the call returned a change
\* of 21.00 and 0 percent
C34_Witness ==
  /\ out.kind = "recordPriceUpdate"
  /\ out.before.price = 0
  /\ out.newPrice = 2100
  /\ out.priceChangeAmount = 2100
  /\ out.priceChangePercent = Zero

\* ---------------------------------------------------------------- C37
\* a call that reads a stored price of 0 finds no price change; and when
\* the stock text observed is the stored one, no step of the call changes
\* the stored price or adds a row to price_history
ZeroPriceStays ==
  (loc.op = "recordPriceUpdate" /\ loc.websiteId \in DOMAIN websites) =>
    LET stored == IF mpc = "rpuSelect" THEN websites[loc.websiteId]
                                       ELSE loc.before
    IN stored.price = 0 =>
         /\ mpc = "rpuSelect" => ~loc'.priceChanged
         /\ loc.newStockStatus = stored.stock_status =>
              /\ websites'[loc.websiteId].price = 0
              /\ price_history' = price_history

\* C37: when the stored price of a listing is 0, recordPriceUpdate reports
\* priceChanged = false for every new price, so as long as the stock
\* status does not change the stored price stays 0 and no history event
\* is appended.
C37_ZeroPriceNeverChanges == [][ZeroPriceStays]_vars

\* a listing stored at 0, in stock, was observed at 101.00, in stock: no
\* change was reported, the price is still 0 and no row was added
C37_Witness ==
  /\ out.kind = "recordPriceUpdate"
  /\ out.before.price = 0
  /\ out.before.stock_status = out.newStockStatus
  /\ out.newPrice = 10100
  /\ ~out.priceChanged
  /\ ~out.stockChanged
  /\ websites[out.websiteId].price = 0
  /\ \A k \in DOMAIN price_history : price_history[k].recorded_at < now

\* ---------------------------------------------------------------- C35
\* the call under way is for a product, a listing, a job or an ASIN that
\* the store does not have
ServiceEntityMissing ==
  \/ /\ loc.op = "calculateProfitability"
     /\ loc.via = "direct"
     /\ \/ loc.productId \notin DOMAIN products
        \/ loc.websiteId \notin DOMAIN websites
  \/ /\ loc.op = "recordPriceUpdate"
     /\ loc.via = "direct"
     /\ loc.websiteId \notin DOMAIN websites
  \/ /\ batch.op = "processAsin"
     /\ \A i \in DOMAIN products : products[i].asin # batch.asin

JobMissing ==
  /\ pc["a"] # "idle"
  /\ frame["a"].via = "direct"
  /\ frame["a"].jobId \notin DOMAIN jobs

\* a step of the service call under way, and a step of runJob: the two
\* take their turns in any order
ServiceStep == <<mpc, loc, batch, out>>' # <<mpc, loc, batch, out>>

RunJobStep == <<pc, call, frame, ret>>' # <<pc, call, frame, ret>>

\* no step of a call for a missing entity changes a table, and the step
\* that ends the call raises
MissingEntityRaises ==
  /\ (mpc # "idle" /\ ServiceEntityMissing /\ ServiceStep) =>
       /\ UNCHANGED <<products, websites, price_history, runs, jobs>>
       /\ mpc' = "idle" =>
            \/ out'.kind = "raised"
            \/ out'.kind = "processAsin" /\ out'.threw
  /\ (JobMissing /\ RunJobStep) =>
       /\ UNCHANGED <<products, websites, price_history, runs, jobs>>
       /\ pc'["a"] = "idle" => ret'["a"].kind = "raised"

\* C35: a missing required entity is an error of that one call and changes
\* no state: calculateProfitability with an unknown product or listing id,
\* recordPriceUpdate with an unknown listing id, runJob with an unknown job
\* id and processAsin with an unknown ASIN each raise, and leave the
\* products, the listings, the history rows, the runs and the jobs as they
\* were, also while the statements of another call take their turns with
\* its own.
C35_MissingEntityRaises == [][MissingEntityRaises]_vars

\* runJob was called with an unknown job id and then recordPriceUpdate
\* with an unknown listing id: both raised and every table is as it was
C35_Witness ==
  /\ ret["a"].kind = "raised"
  /\ ret["a"].error = "Job not found"
  /\ out.kind = "raised"
  /\ out.error = "Website not found"
  /\ pc["a"] = "idle"
  /\ mpc = "idle"
  /\ runs = <<>>
  /\ \A j \in DOMAIN jobs : jobs[j].last_run_time = NULL
  /\ Len(price_history) = 1
  /\ websites[1].last_checked = 0

\* the history row of listing i recorded last: the latest recorded_at and,
\* among rows of one timestamp, the one inserted last
MostRecentEvent(i) ==
  CHOOSE h \in LatestRecorded(i) : \A g \in LatestRecorded(i) : g <= h

\* C36: whenever a listing has at least one history event, the price and
\* the stock status of its most recent history event equal the listing's
\* stored price and stock status, after any sequence of crawl inserts,
\* recordPriceUpdate calls and retention sweeps (in the states in which no
\* call is under way: recordPriceUpdate writes the listing and then the
\* history row in two statements).
C36_LatestEventMatchesListing ==
  mpc = "idle" =>
    \A i \in DOMAIN websites :
      HistoryOf(i) # {} =>
        /\ price_history[MostRecentEvent(i)].price = websites[i].price
        /\ price_history[MostRecentEvent(i)].stock_status
             = websites[i].stock_status

\* a crawled listing was re-priced and restocked by a later
\* recordPriceUpdate: it has two history rows, and the later one carries
\* the listing's new price and stock status
C36_Witness ==
  /\ mpc = "idle"
  /\ out.kind = "recordPriceUpdate"
  /\ Len(websites) >= 1
  /\ websites[1].price = RecrawledPrice
  /\ websites[1].stock_status = "In Stock"
  /\ Cardinality(HistoryOf(1)) = 2
  /\ \E h \in HistoryOf(1) :
       /\ price_history[h].price # RecrawledPrice
       /\ price_history[h].stock_status # "In Stock"
  /\ price_history[MostRecentEvent(1)].price = RecrawledPrice
  /\ price_history[MostRecentEvent(1)].recorded_at > StartHour

\* the route has resumed from its await of runMonitoringCycle: the cycle
\* has returned its counts and every listing that was stale is checked
CycleExecuted ==
  /\ route.stage = "profitability"
  /\ out.kind = "runMonitoringCycle"
  /\ \A i \in DOMAIN websites : websites[i].last_checked = now

\* C38: every invocation of the cron entry point executes the monitoring
\* cycle, whether the monitoring_cycle job is due, not due or paused.
C38_CycleEveryInvocation == (route.stage = "initialize") ~> CycleExecuted

\* every listing has been checked since the cycles began
AllListingsRechecked ==
  \A i \in DOMAIN websites : websites[i].last_checked >= StartHour

\* C39: under repeated monitoring cycles with time advancing and no check
\* failing, every stored listing is eventually re-checked, even when more
\* listings are stale than one batch holds, because the stale listings are
\* taken oldest-checked first.
C39_BacklogIsDrained == <>AllListingsRechecked

\* the first cycle checked a full batch and left the listing checked last;
\* more than a day later the second cycle took that listing first, although
\* the listings of the first batch were stale again
C39_Witness ==
  /\ AllListingsRechecked
  /\ mpc = "idle"
  /\ calls = 2
  /\ websites[ScaledBatchSize + 1].last_checked
       = StartHour + DefaultSchedule + CronIntervalHours
  /\ \E i \in DOMAIN websites : websites[i].last_checked = StartHour

\* C40: when two sendProfitableOpportunityAlert calls for one product
\* interleave, still at most one alert is sent and at most one row of
\* product_alerts is written for the product within one dedup window: two
\* accepted messages for a product, and two of its rows, are never less
\* than 24 hours apart.
C40_OneAlertWhenInterleaved ==
  /\ \A i, k \in DOMAIN outbox :
       (i < k /\ outbox[i].product_id = outbox[k].product_id)
         => outbox[k].at - outbox[i].at >= MinTimeBetweenAlerts
  /\ \A i, k \in DOMAIN product_alerts :
       (i < k /\ product_alerts[i].product_id = product_alerts[k].product_id)
         => product_alerts[k].created_at - product_alerts[i].created_at
              >= MinTimeBetweenAlerts

====
